---------------------------- MODULE Spec2Model ----------------------------
(***************************************************************************)
(* A model of package plantuml (src/plantuml/main.go): the line-oriented   *)
(* parser of structural PlantUML models.                                   *)
(*                                                                         *)
(* Text is modelled character by character: a string is a sequence of      *)
(* one-character strings, and the five regular expressions of the package  *)
(* are operators over such sequences.  The Parser is modelled with the     *)
(* heap it points into, because the model's Entities map and the parser's  *)
(* currentClass both hold *Entity pointers.                                *)
(*                                                                         *)
(* The later sections model RenderElement of the LaTeX renderer            *)
(* (src/unnamed/part_001, variable writer) and the command-line            *)
(* applications mbus_post, mbus_get and mbus_delete (variable mbus).       *)
(***************************************************************************)
EXTENDS Integers, Sequences, FiniteSets, TLC

(***************************************************************************)
(* Bounds of the model.                                                    *)
(***************************************************************************)
\* The longest input, in lines, that the reader holds.
MaxLines == 3

(***************************************************************************)
(* Program constants.                                                      *)
(***************************************************************************)
\* bufio.MaxScanTokenSize, the buffer limit of the scanner that
\* bufio.NewScanner builds (main.go:77): a line of this many bytes or more
\* makes Scan fail with bufio.ErrTooLong.
MaxScanTokenSize == 65536

\* a nil submatch slice: the expression did not match
NoMatch == << >>

\* no character: a position outside the string
NoChar == "none"

(***************************************************************************)
(* Characters.                                                             *)
(***************************************************************************)
\* \w of Go's regexp (RE2): [0-9A-Za-z_]
WordChar ==
    {"a", "b", "c", "d", "e", "f", "g", "h", "i", "j", "k", "l", "m", "n",
     "o", "p", "q", "r", "s", "t", "u", "v", "w", "x", "y", "z",
     "A", "B", "C", "D", "E", "F", "G", "H", "I", "J", "K", "L", "M", "N",
     "O", "P", "Q", "R", "S", "T", "U", "V", "W", "X", "Y", "Z",
     "0", "1", "2", "3", "4", "5", "6", "7", "8", "9", "_"}

\* \s of Go's regexp (RE2): [\t\n\f\r ]
SpaceChar == {" ", "\t", "\n", "\f", "\r"}

\* the character class of relationRegex with a slip: the arrow head is
\* part of it, [-.o*<|>]
ConnChar_WithArrowHead == {"-", ".", "o", "*", "<", "|", ">"}

\* the character class [-.o*<|] of relationRegex
ConnChar == {"-", ".", "o", "*", "<", "|"}

\* the punctuation the modelled inputs use besides the classes above
OtherChar == {"{", "}", "(", ")", ":", "\"", "'", "@", "?", ">", ","}

Char == WordChar \cup SpaceChar \cup ConnChar \cup OtherChar

\* [^"]
NotQuote == Char \ {"\""}

(***************************************************************************)
(* v := ...; F(v): a value computed once and then used under a name.       *)
(***************************************************************************)
Bind(v, F(_)) == F(v)

(***************************************************************************)
(* String helpers.                                                         *)
(***************************************************************************)
\* The first position j >= i of s that holds no character of class C
\* (Len(s) + 1 when there is none): where a greedy C* started at i ends.
Span(s, i, C) ==
    IF i > Len(s) THEN i
    ELSE CHOOSE j \in i..(Len(s) + 1) :
             /\ \A k \in i..(j - 1) : s[k] \in C
             /\ (j = Len(s) + 1 \/ s[j] \notin C)

At(s, i) == IF i >= 1 /\ i <= Len(s) THEN s[i] ELSE NoChar

HasPrefixAt(s, i, p) ==
    /\ i + Len(p) - 1 <= Len(s)
    /\ SubSeq(s, i, i + Len(p) - 1) = p

\* strings.HasPrefix
HasPrefix(s, p) == HasPrefixAt(s, 1, p)

\* strings.TrimSpace: cut the leading and the trailing white space.
TrimSpace(s) ==
    LET a == Span(s, 1, SpaceChar)
    IN  IF a > Len(s) THEN << >>
        ELSE LET b == CHOOSE j \in a..Len(s) :
                          /\ s[j] \notin SpaceChar
                          /\ \A k \in (j + 1)..Len(s) : s[k] \in SpaceChar
             IN  SubSeq(s, a, b)

\* strings.Trim(s, "\""): cut the leading and the trailing quote characters.
TrimQuotes(s) ==
    LET a == Span(s, 1, {"\""})
    IN  IF a > Len(s) THEN << >>
        ELSE LET b == CHOOSE j \in a..Len(s) :
                          /\ s[j] # "\""
                          /\ \A k \in (j + 1)..Len(s) : s[k] = "\""
             IN  SubSeq(s, a, b)

(***************************************************************************)
(* The regular expressions.  Each operator is FindStringSubmatch of the    *)
(* expression: NoMatch when the line does not match, and otherwise the     *)
(* submatches, indexed by group number as in the source (an optional       *)
(* group that did not take part is the empty string).  Every expression    *)
(* is anchored at both ends and each of its repetitions is followed by a   *)
(* character outside the repeated class, so the greedy scan below yields   *)
(* the only way the expression can match.                                  *)
(***************************************************************************)
Keywords ==
    << <<"c", "l", "a", "s", "s">>,
       <<"e", "n", "t", "i", "t", "y">>,
       <<"o", "b", "j", "e", "c", "t">> >>

\* the expression with a slip: any word is taken as a keyword,
\* ^(\w+)\s+(\w+)\s*\{?$
entityRegex_AnyKeyword(s) ==
    LET a == Span(s, 1, WordChar)
        b == Span(s, a, SpaceChar)
        c == Span(s, b, WordChar)
        d == Span(s, c, SpaceChar)
        f == IF At(s, d) = "{" THEN d + 1 ELSE d
    IN  IF a > 1 /\ b > a /\ c > b /\ f = Len(s) + 1
        THEN <<SubSeq(s, 1, a - 1), SubSeq(s, b, c - 1)>>
        ELSE NoMatch

\* ^(class|entity|object)\s+(\w+)\s*\{?$
entityRegex(s) ==
    LET kws == {k \in 1..Len(Keywords) : HasPrefix(s, Keywords[k])}
    IN  IF kws = {} THEN NoMatch
        ELSE
        LET kw == Keywords[CHOOSE k \in kws : \A k2 \in kws : k <= k2]
            a  == Len(kw) + 1
            b  == Span(s, a, SpaceChar)
            c  == Span(s, b, WordChar)
            d  == Span(s, c, SpaceChar)
            e  == IF At(s, d) = "{" THEN d + 1 ELSE d
        IN  IF b > a /\ c > b /\ e = Len(s) + 1
            THEN <<kw, SubSeq(s, b, c - 1)>>
            ELSE NoMatch

\* ^(\w+)\s*:\s*(\w+)$
attributeRegex(s) ==
    LET a == Span(s, 1, WordChar)
        b == Span(s, a, SpaceChar)
        c == Span(s, b + 1, SpaceChar)
        d == Span(s, c, WordChar)
    IN  IF a > 1 /\ At(s, b) = ":" /\ d > c /\ d = Len(s) + 1
        THEN <<SubSeq(s, 1, a - 1), SubSeq(s, c, d - 1)>>
        ELSE NoMatch

\* \s*:\s*(\w+)$ from position i on: the tail of methodRegex
MethodTail(s, i) ==
    LET b == Span(s, i, SpaceChar)
        c == Span(s, b + 1, SpaceChar)
        d == Span(s, c, WordChar)
    IN  IF At(s, b) = ":" /\ d > c /\ d = Len(s) + 1
        THEN SubSeq(s, c, d - 1)
        ELSE NoMatch

\* methodRegex with a slip: the parameter list is optional,
\* ^(\w+)(\(.*\))?\s*:\s*(\w+)$
methodRegex_OptionalParameters(s) ==
    Bind(Span(s, 1, WordChar), LAMBDA a :
    Bind({q \in (a + 1)..Len(s) :
              s[q] = ")" /\ MethodTail(s, q + 1) # NoMatch}, LAMBDA closes :
        IF a > 1 /\ At(s, a) = "(" /\ closes # {}
        THEN Bind(CHOOSE q \in closes : \A q2 \in closes : q2 <= q,
                  LAMBDA q : <<SubSeq(s, 1, a - 1), MethodTail(s, q + 1)>>)
        ELSE IF a > 1 /\ MethodTail(s, a) # NoMatch
        THEN <<SubSeq(s, 1, a - 1), MethodTail(s, a)>>
        ELSE NoMatch))

\* ^(\w+)\(.*\)\s*:\s*(\w+)$
methodRegex(s) ==
    Bind(Span(s, 1, WordChar), LAMBDA a :
    Bind({q \in (a + 1)..Len(s) :
              s[q] = ")" /\ MethodTail(s, q + 1) # NoMatch}, LAMBDA closes :
        IF a > 1 /\ At(s, a) = "(" /\ closes # {}
        THEN \* .* is greedy: the last closing parenthesis that lets the
             \* tail match
             Bind(CHOOSE q \in closes : \A q2 \in closes : q2 <= q,
                  LAMBDA q : <<SubSeq(s, 1, a - 1), MethodTail(s, q + 1)>>)
        ELSE NoMatch))

\* \s*("[^"]+")?\s+ from position i on (i follows a name or a connector):
\* NoMatch, or the quoted multiplicity (empty when absent) and the
\* position after the white space.
Multiplicity(s, i) ==
    Bind(Span(s, i, SpaceChar), LAMBDA b :
        IF At(s, b) = "\""
        THEN Bind(Span(s, b + 1, NotQuote), LAMBDA c :
             Bind(Span(s, c + 1, SpaceChar), LAMBDA d :
                 IF c > b + 1 /\ At(s, c) = "\"" /\ d > c + 1
                 THEN <<SubSeq(s, b, c), d>>
                 ELSE NoMatch))
        ELSE IF b > i THEN <<<< >>, b>> ELSE NoMatch)

\* ^(\w+)\s*("[^"]+")?\s+([-.o*<|]+)\s*("[^"]+")?\s+(\w+)(\s*:\s*(.+))?$
relationRegex(s) ==
    Bind(Span(s, 1, WordChar), LAMBDA a :
    Bind(Multiplicity(s, a), LAMBDA fm :
        IF a = 1 \/ fm = NoMatch THEN NoMatch
        ELSE
        Bind(Span(s, fm[2], ConnChar), LAMBDA e :
        Bind(Multiplicity(s, e), LAMBDA tm :
            IF e = fm[2] \/ tm = NoMatch THEN NoMatch
            ELSE
            Bind(Span(s, tm[2], WordChar), LAMBDA i :
            Bind(Span(s, i, SpaceChar), LAMBDA j :
            Bind(Span(s, j + 1, SpaceChar), LAMBDA k :
            Bind(<<SubSeq(s, 1, a - 1), fm[1], SubSeq(s, fm[2], e - 1),
                   tm[1], SubSeq(s, tm[2], i - 1)>>, LAMBDA head :
                IF i = tm[2] THEN NoMatch
                ELSE IF i = Len(s) + 1 THEN head \o << << >>, << >> >>
                ELSE IF At(s, j) = ":" /\ k <= Len(s)
                     THEN head \o <<SubSeq(s, i, Len(s)),
                                     SubSeq(s, k, Len(s))>>
                     ELSE NoMatch))))))))

ConstraintWord == <<"c", "o", "n", "s", "t", "r", "a", "i", "n", "t">>
OnWord == <<"o", "n">>

\* ^constraint\s+(\w+)\s+on\s+(\w+)\s*:\s*(.+)$
constraintRegex(s) ==
    LET a == Len(ConstraintWord) + 1
        b == Span(s, a, SpaceChar)
        c == Span(s, b, WordChar)
        d == Span(s, c, SpaceChar)
        e == d + Len(OnWord)
        f == Span(s, e, SpaceChar)
        g == Span(s, f, WordChar)
        h == Span(s, g, SpaceChar)
        i == Span(s, h + 1, SpaceChar)
    IN  IF /\ HasPrefix(s, ConstraintWord)
           /\ b > a /\ c > b /\ d > c
           /\ HasPrefixAt(s, d, OnWord)
           /\ f > e /\ g > f
           /\ At(s, h) = ":" /\ i <= Len(s)
        THEN <<SubSeq(s, b, c - 1), SubSeq(s, f, g - 1), SubSeq(s, i, Len(s))>>
        ELSE NoMatch

(***************************************************************************)
(* The input.  A line is its indentation, as a number of leading spaces,   *)
(* and the text after it; nothing but the length of a line depends on how  *)
(* many leading spaces it has, since Parse trims every line first.         *)
(***************************************************************************)
Spaces(n) == [i \in 1..n |-> " "]

\* the line as written in the input, without its line end
Text(l) == Spaces(l.pad) \o l.text

\* the length of the line in bytes
RawLen(l) == l.pad + Len(l.text)

BlankLine      == [pad |-> 0, text |-> << >>]
DirectiveLine  == [pad |-> 0, text |-> <<"@", "u">>]
CommentLine    == [pad |-> 2, text |-> <<"'", "c">>]
CloseLine      == [pad |-> 0, text |-> <<"}", " ">>]
ClassALine     == [pad |-> 0,
                   text |-> <<"c", "l", "a", "s", "s", " ", "A", " ", "{">>]
EntityBLine    == [pad |-> 0,
                   text |-> <<"e", "n", "t", "i", "t", "y", " ", "B">>]
AttributeLine  == [pad |-> 2, text |-> <<"x", " ", ":", " ", "T">>]
AttributeLine2 == [pad |-> 0, text |-> <<"y", ":", "U">>]
MethodLine     == [pad |-> 2, text |-> <<"f", "(", "a", ")", ":", "T">>]
MethodLine2    == [pad |-> 0, text |-> <<"g", "(", ")", " ", ":", " ", "U">>]
RelationLine1  == [pad |-> 0,
                   text |-> <<"A", " ", "\"", "1", "\"", " ", "-", "-", " ",
                              "\"", "*", "\"", " ", "B", " ", ":", " ", "r">>]
RelationLine2  == [pad |-> 0,
                   text |-> <<"B", " ", "<", "|", "-", "-", " ", "A">>]
ConstraintLine1 == [pad |-> 0,
                    text |-> <<"c", "o", "n", "s", "t", "r", "a", "i", "n",
                               "t", " ", "u", " ", "o", "n", " ", "A", " ",
                               ":", " ", "x">>]
ConstraintLine2 == [pad |-> 0,
                    text |-> <<"c", "o", "n", "s", "t", "r", "a", "i", "n",
                               "t", " ", "m", " ", "o", "n", " ", "B", ":",
                               "y">>]
GarbageLine    == [pad |-> 0, text |-> <<"?", "x", "?">>]
\* a line of MaxScanTokenSize spaces
LongBlankLine  == [pad |-> MaxScanTokenSize, text |-> << >>]

\* the lines an input is made of
Lines ==
    {BlankLine, DirectiveLine, CommentLine, CloseLine, ClassALine,
     EntityBLine, AttributeLine, AttributeLine2, MethodLine, MethodLine2,
     RelationLine1, RelationLine2,
     ConstraintLine1, ConstraintLine2, GarbageLine, LongBlankLine}

Inputs == UNION {[1..n -> Lines] : n \in 0..MaxLines}

(***************************************************************************)
(* bufio.Scanner with the default split function (ScanLines) and the       *)
(* default buffer, as NewParser builds it.                                 *)
(***************************************************************************)
\* The buffer holds at most MaxScanTokenSize bytes: Scan fails with
\* ErrTooLong when it is full and holds no line end.
TooLong(l) == RawLen(l) >= MaxScanTokenSize

\* When the reader fails in the middle of a line, Scan still hands out what
\* it read of the line as a last token before it returns false.  The tokens
\* that a failure inside line l can leave: a cut inside the indentation
\* leaves spaces only (one space stands for any number of them), a cut
\* inside the text leaves the indentation and a prefix of the text.
PartialTokens(l) ==
    (IF l.pad > 0 THEN {<<" ">>} ELSE {})
    \cup {Spaces(l.pad) \o SubSeq(l.text, 1, k) :
              k \in {j \in 1..Len(l.text) : l.pad + j < MaxScanTokenSize}}

(***************************************************************************)
(* The parser.  Entity values live in heap, a sequence; a *Entity is an    *)
(* index into it and 0 is the nil pointer.  A parser value p is the record *)
(* of the heap, the Model (Entities maps names to pointers) and the        *)
(* parser's currentClass pointer.                                          *)
(***************************************************************************)
NilPtr == 0

\* NewParser: an empty model and no current class
NewParser ==
    [heap         |-> << >>,
     model        |-> [Entities      |-> << >>,
                       Relationships |-> << >>,
                       Constraints   |-> << >>],
     currentClass |-> NilPtr]

\* m[k] = v on a Go map
MapPut(m, k, v) == [x \in (DOMAIN m) \cup {k} |-> IF x = k THEN v ELSE m[x]]

\* &Entity{Name: name}: the heap with a fresh entity, whose pointer is
\* the new length of the heap
NewEntity(heap, name) ==
    Append(heap, [Name |-> name, Attributes |-> << >>, Methods |-> << >>])

\* parseEntity with a slip: a header for a name the map already holds
\* reopens the stored entity instead of replacing it with a fresh one
parseEntity_ReusesEntity(line, p) ==
    Bind(entityRegex(line), LAMBDA matches :
        IF matches = NoMatch THEN [ok |-> FALSE, p |-> p]
        ELSE IF matches[2] \in DOMAIN p.model.Entities
        THEN [ok |-> TRUE,
              p  |-> [p EXCEPT !.currentClass = p.model.Entities[matches[2]]]]
        ELSE [ok |-> TRUE,
              p  |-> [heap  |-> NewEntity(p.heap, matches[2]),
                      model |-> [p.model EXCEPT !.Entities =
                                    MapPut(@, matches[2], Len(p.heap) + 1)],
                      currentClass |-> Len(p.heap) + 1]])

\* parseEntity with a slip: the assignment p.currentClass = entity is
\* missing
parseEntity_ForgetsCurrentClass(line, p) ==
    Bind(entityRegex(line), LAMBDA matches :
        IF matches = NoMatch THEN [ok |-> FALSE, p |-> p]
        ELSE [ok |-> TRUE,
              p  |-> [p EXCEPT
                         !.heap = NewEntity(@, matches[2]),
                         !.model.Entities =
                             MapPut(@, matches[2], Len(p.heap) + 1)]])

\* parseEntity with a slip: a header is taken only at the top level, not
\* while a class body is open
parseEntity_OnlyAtTopLevel(line, p) ==
    Bind(entityRegex(line), LAMBDA matches :
        IF matches = NoMatch \/ p.currentClass # NilPtr
        THEN [ok |-> FALSE, p |-> p]
        ELSE [ok |-> TRUE,
              p  |-> [heap  |-> NewEntity(p.heap, matches[2]),
                      model |-> [p.model EXCEPT !.Entities =
                                    MapPut(@, matches[2], Len(p.heap) + 1)],
                      currentClass |-> Len(p.heap) + 1]])

\* parseEntity with a slip: the map gets one entity and p.currentClass a
\* second one of the same name (the entity is stored by value and
\* currentClass points at a copy)
parseEntity_CurrentIsCopy(line, p) ==
    Bind(entityRegex(line), LAMBDA matches :
        IF matches = NoMatch THEN [ok |-> FALSE, p |-> p]
        ELSE
        Bind(matches[2], LAMBDA name :
        Bind(Len(p.heap) + 1, LAMBDA entity :
            [ok |-> TRUE,
             p  |-> [heap  |-> NewEntity(NewEntity(p.heap, name), name),
                     model |-> [p.model EXCEPT
                                   !.Entities = MapPut(@, name, entity)],
                     currentClass |-> entity + 1]])))

\* parseEntity with a slip: a header for a name the model already holds is
\* not taken
parseEntity_RejectsDuplicate(line, p) ==
    Bind(entityRegex(line), LAMBDA matches :
        IF matches = NoMatch \/ matches[2] \in DOMAIN p.model.Entities
        THEN [ok |-> FALSE, p |-> p]
        ELSE [ok |-> TRUE,
              p  |-> [heap  |-> NewEntity(p.heap, matches[2]),
                      model |-> [p.model EXCEPT !.Entities =
                                    MapPut(@, matches[2], Len(p.heap) + 1)],
                      currentClass |-> Len(p.heap) + 1]])

parseEntity(line, p) ==
    Bind(entityRegex(line), LAMBDA matches :
        IF matches = NoMatch THEN [ok |-> FALSE, p |-> p]
        ELSE
        Bind(matches[2], LAMBDA name :
        Bind(Len(p.heap) + 1, LAMBDA entity :
            [ok |-> TRUE,
             p  |-> [heap  |-> NewEntity(p.heap, name),
                     model |-> [p.model EXCEPT
                                   !.Entities = MapPut(@, name, entity)],
                     currentClass |-> entity]])))

\* parseAttribute with a slip: the append is done twice
parseAttribute_AppendsTwice(line, e, heap) ==
    Bind(attributeRegex(line), LAMBDA matches :
        IF matches = NoMatch THEN [ok |-> FALSE, heap |-> heap]
        ELSE [ok   |-> TRUE,
              heap |-> [heap EXCEPT ![e].Attributes =
                           @ \o <<[Name |-> matches[1], Type |-> matches[2]],
                                  [Name |-> matches[1], Type |-> matches[2]]>>]])

parseAttribute(line, e, heap) ==
    Bind(attributeRegex(line), LAMBDA matches :
        IF matches = NoMatch THEN [ok |-> FALSE, heap |-> heap]
        ELSE [ok   |-> TRUE,
              heap |-> [heap EXCEPT ![e].Attributes =
                           Append(@, [Name |-> matches[1],
                                      Type |-> matches[2]])]])

\* parseMethod with a slip: the method goes to the first entity that was
\* declared instead of the entity e
parseMethod_FirstEntity(line, e, heap) ==
    Bind(methodRegex(line), LAMBDA matches :
        IF matches = NoMatch THEN [ok |-> FALSE, heap |-> heap]
        ELSE [ok   |-> TRUE,
              heap |-> [heap EXCEPT ![1].Methods =
                           Append(@, [Name       |-> matches[1],
                                      ReturnType |-> matches[2]])]])

\* parseMethod with a slip: the method is appended to the attributes, as
\* parseAttribute does
parseMethod_AppendsToAttributes(line, e, heap) ==
    Bind(methodRegex(line), LAMBDA matches :
        IF matches = NoMatch THEN [ok |-> FALSE, heap |-> heap]
        ELSE [ok   |-> TRUE,
              heap |-> [heap EXCEPT ![e].Attributes =
                           Append(@, [Name |-> matches[1],
                                      Type |-> matches[2]])]])

parseMethod(line, e, heap) ==
    Bind(methodRegex(line), LAMBDA matches :
        IF matches = NoMatch THEN [ok |-> FALSE, heap |-> heap]
        ELSE [ok   |-> TRUE,
              heap |-> [heap EXCEPT ![e].Methods =
                           Append(@, [Name       |-> matches[1],
                                      ReturnType |-> matches[2]])]])

\* parseRelationship with a slip: the relationship is put in front of the
\* slice instead of appended
parseRelationship_Prepends(line, model) ==
    Bind(relationRegex(line), LAMBDA matches :
        IF matches = NoMatch THEN [ok |-> FALSE, model |-> model]
        ELSE [ok    |-> TRUE,
              model |-> [model EXCEPT !.Relationships =
                            <<[From             |-> matches[1],
                               FromMultiplicity |-> TrimQuotes(matches[2]),
                               Type             |-> matches[3],
                               ToMultiplicity   |-> TrimQuotes(matches[4]),
                               To               |-> matches[5],
                               Label            |-> matches[7]]>> \o @]])

\* parseRelationship with a slip: a relationship is taken only when both
\* entities it names are declared
parseRelationship_RequiresDeclared(line, model) ==
    Bind(relationRegex(line), LAMBDA matches :
        IF matches = NoMatch
        THEN [ok |-> FALSE, model |-> model]
        ELSE IF matches[1] \notin DOMAIN model.Entities
                \/ matches[5] \notin DOMAIN model.Entities
        THEN [ok |-> FALSE, model |-> model]
        ELSE [ok    |-> TRUE,
              model |-> [model EXCEPT !.Relationships =
                            Append(@,
                              [From             |-> matches[1],
                               FromMultiplicity |-> TrimQuotes(matches[2]),
                               Type             |-> matches[3],
                               ToMultiplicity   |-> TrimQuotes(matches[4]),
                               To               |-> matches[5],
                               Label            |-> matches[7]])]])

\* parseRelationship with a slip: the multiplicities are stored as matched,
\* with their quotes
parseRelationship_KeepsQuotes(line, model) ==
    Bind(relationRegex(line), LAMBDA matches :
        IF matches = NoMatch THEN [ok |-> FALSE, model |-> model]
        ELSE [ok    |-> TRUE,
              model |-> [model EXCEPT !.Relationships =
                            Append(@, [From             |-> matches[1],
                                       FromMultiplicity |-> matches[2],
                                       Type             |-> matches[3],
                                       ToMultiplicity   |-> matches[4],
                                       To               |-> matches[5],
                                       Label            |-> matches[7]])]])

parseRelationship(line, model) ==
    Bind(relationRegex(line), LAMBDA matches :
        IF matches = NoMatch THEN [ok |-> FALSE, model |-> model]
        ELSE
        Bind([From             |-> matches[1],
              FromMultiplicity |-> TrimQuotes(matches[2]),
              Type             |-> matches[3],
              ToMultiplicity   |-> TrimQuotes(matches[4]),
              To               |-> matches[5],
              Label            |-> matches[7]], LAMBDA rel :
            [ok    |-> TRUE,
             model |-> [model EXCEPT !.Relationships = Append(@, rel)]]))

\* parseConstraint with a slip: the two identifiers are stored the wrong
\* way round
parseConstraint_SwapsKindAndTarget(line, model) ==
    Bind(constraintRegex(line), LAMBDA matches :
        IF matches = NoMatch THEN [ok |-> FALSE, model |-> model]
        ELSE [ok    |-> TRUE,
              model |-> [model EXCEPT !.Constraints =
                            Append(@, [Kind   |-> matches[2],
                                       Target |-> matches[1],
                                       Expr   |-> matches[3]])]])

\* parseConstraint with a slip: the constraint is assigned, not appended
parseConstraint_Overwrites(line, model) ==
    Bind(constraintRegex(line), LAMBDA matches :
        IF matches = NoMatch THEN [ok |-> FALSE, model |-> model]
        ELSE [ok    |-> TRUE,
              model |-> [model EXCEPT !.Constraints =
                            <<[Kind   |-> matches[1],
                               Target |-> matches[2],
                               Expr   |-> matches[3]]>>]])

parseConstraint(line, model) ==
    Bind(constraintRegex(line), LAMBDA matches :
        IF matches = NoMatch THEN [ok |-> FALSE, model |-> model]
        ELSE [ok    |-> TRUE,
              model |-> [model EXCEPT !.Constraints =
                            Append(@, [Kind   |-> matches[1],
                                       Target |-> matches[2],
                                       Expr   |-> matches[3]])]])

\* the directive and the comment marker
AtSign == <<"@">>
Apostrophe == <<"'">>
CloseBrace == <<"}">>

\* `continue` on an empty line, a directive or a comment
Ignored(p) == [p |-> p, branch |-> "skip"]

\* the end of a class body with a slip: `continue` without the assignment
EndOfBody_KeepsOpen(p) == [p |-> p, branch |-> "close"]

\* the end of a class body with a slip: *p.currentClass = Entity{} in place
\* of p.currentClass = nil
EndOfBody_ZeroesEntity(p) ==
    [p |-> IF p.currentClass = NilPtr THEN p
           ELSE [p EXCEPT !.heap[p.currentClass] =
                    [Name |-> << >>, Attributes |-> << >>, Methods |-> << >>]],
     branch |-> "close"]

\* the end of a class body with a slip: a } with no body open starts the
\* model afresh
EndOfBody_TopLevelClearsModel(p) ==
    [p |-> IF p.currentClass = NilPtr
           THEN [p EXCEPT !.model = NewParser.model]
           ELSE [p EXCEPT !.currentClass = NilPtr],
     branch |-> "close"]

\* p.currentClass = nil; continue
EndOfBody(p) == [p |-> [p EXCEPT !.currentClass = NilPtr], branch |-> "close"]

\* the end of the loop body with a slip: an unrecognised line ends the
\* class body
Dropped_ClosesBody(p) ==
    [p |-> [p EXCEPT !.currentClass = NilPtr], branch |-> "none"]

\* the end of the loop body: no helper recognised the line
Dropped(p) == [p |-> p, branch |-> "none"]

\* the loop body with a slip: strings.HasPrefix(line, "}") in place of
\* line == "}"
LoopBody_ClosesOnPrefix(text, p) ==
    Bind(TrimSpace(text), LAMBDA line :
    \* Ignore empty lines and directives
    IF line = << >> \/ HasPrefix(line, AtSign) \/ HasPrefix(line, Apostrophe)
    THEN Ignored(p)
    \* End of class body
    ELSE IF HasPrefix(line, CloseBrace)
    THEN EndOfBody(p)
    ELSE
    \* Inside class body
    Bind(IF p.currentClass # NilPtr
         THEN parseAttribute(line, p.currentClass, p.heap)
         ELSE [ok |-> FALSE, heap |-> p.heap], LAMBDA attr :
    IF attr.ok
    THEN [p |-> [p EXCEPT !.heap = attr.heap], branch |-> "attribute"]
    ELSE
    Bind(IF p.currentClass # NilPtr
         THEN parseMethod(line, p.currentClass, p.heap)
         ELSE [ok |-> FALSE, heap |-> p.heap], LAMBDA meth :
    IF meth.ok
    THEN [p |-> [p EXCEPT !.heap = meth.heap], branch |-> "method"]
    ELSE
    \* Entity declaration
    Bind(parseEntity(line, p), LAMBDA ent :
    IF ent.ok
    THEN [p |-> ent.p, branch |-> "entity"]
    ELSE
    \* Relationship declaration (with multiplicities)
    Bind(parseRelationship(line, p.model), LAMBDA rel :
    IF rel.ok
    THEN [p |-> [p EXCEPT !.model = rel.model], branch |-> "relationship"]
    ELSE
    \* Constraint declaration
    Bind(parseConstraint(line, p.model), LAMBDA con :
    IF con.ok
    THEN [p |-> [p EXCEPT !.model = con.model], branch |-> "constraint"]
    ELSE Dropped(p)))))))

\* the loop body with a slip: a relationship ends the class body
LoopBody_RelationshipEndsBody(text, p) ==
    Bind(TrimSpace(text), LAMBDA line :
    \* Ignore empty lines and directives
    IF line = << >> \/ HasPrefix(line, AtSign) \/ HasPrefix(line, Apostrophe)
    THEN Ignored(p)
    \* End of class body
    ELSE IF line = CloseBrace
    THEN EndOfBody(p)
    ELSE
    \* Inside class body
    Bind(IF p.currentClass # NilPtr
         THEN parseAttribute(line, p.currentClass, p.heap)
         ELSE [ok |-> FALSE, heap |-> p.heap], LAMBDA attr :
    IF attr.ok
    THEN [p |-> [p EXCEPT !.heap = attr.heap], branch |-> "attribute"]
    ELSE
    Bind(IF p.currentClass # NilPtr
         THEN parseMethod(line, p.currentClass, p.heap)
         ELSE [ok |-> FALSE, heap |-> p.heap], LAMBDA meth :
    IF meth.ok
    THEN [p |-> [p EXCEPT !.heap = meth.heap], branch |-> "method"]
    ELSE
    \* Entity declaration
    Bind(parseEntity(line, p), LAMBDA ent :
    IF ent.ok
    THEN [p |-> ent.p, branch |-> "entity"]
    ELSE
    \* Relationship declaration (with multiplicities)
    Bind(parseRelationship(line, p.model), LAMBDA rel :
    IF rel.ok
    THEN [p |-> [p EXCEPT !.model = rel.model, !.currentClass = NilPtr],
          branch |-> "relationship"]
    ELSE
    \* Constraint declaration
    Bind(parseConstraint(line, p.model), LAMBDA con :
    IF con.ok
    THEN [p |-> [p EXCEPT !.model = con.model], branch |-> "constraint"]
    ELSE Dropped(p)))))))

\* One iteration of the loop of Parse on the token the scanner handed out:
\* the parser after it, and the statement that ended the iteration.
LoopBody(text, p) ==
    Bind(TrimSpace(text), LAMBDA line :
    \* Ignore empty lines and directives
    IF line = << >> \/ HasPrefix(line, AtSign) \/ HasPrefix(line, Apostrophe)
    THEN Ignored(p)
    \* End of class body
    ELSE IF line = CloseBrace
    THEN EndOfBody(p)
    ELSE
    \* Inside class body
    Bind(IF p.currentClass # NilPtr
         THEN parseAttribute(line, p.currentClass, p.heap)
         ELSE [ok |-> FALSE, heap |-> p.heap], LAMBDA attr :
    IF attr.ok
    THEN [p |-> [p EXCEPT !.heap = attr.heap], branch |-> "attribute"]
    ELSE
    Bind(IF p.currentClass # NilPtr
         THEN parseMethod(line, p.currentClass, p.heap)
         ELSE [ok |-> FALSE, heap |-> p.heap], LAMBDA meth :
    IF meth.ok
    THEN [p |-> [p EXCEPT !.heap = meth.heap], branch |-> "method"]
    ELSE
    \* Entity declaration
    Bind(parseEntity(line, p), LAMBDA ent :
    IF ent.ok
    THEN [p |-> ent.p, branch |-> "entity"]
    ELSE
    \* Relationship declaration (with multiplicities)
    Bind(parseRelationship(line, p.model), LAMBDA rel :
    IF rel.ok
    THEN [p |-> [p EXCEPT !.model = rel.model], branch |-> "relationship"]
    ELSE
    \* Constraint declaration
    Bind(parseConstraint(line, p.model), LAMBDA con :
    IF con.ok
    THEN [p |-> [p EXCEPT !.model = con.model], branch |-> "constraint"]
    ELSE Dropped(p)))))))

(***************************************************************************)
(* The state.                                                              *)
(***************************************************************************)
VARIABLES
    input,     \* the lines the reader holds
    scanned,   \* how many of them the scanner has consumed
    scanErr,   \* the scanner's sticky error (Scanner.Err)
    p,         \* the Parser and the heap it points into
    pc,        \* where Parse is: "loop", "exit" (after the loop), "returned"
    ret,       \* what Parse returned: the model pointer and the error
    failedAt,  \* the line during whose read the reader failed (0: it has not)
    trace,     \* per token handed out: the branch the body took and, when
               \* a parse helper recognised it, the trimmed line
    stdout,    \* what has been written to the standard output, one text
               \* per call of DebugPrint
    mbus,      \* a run of mbus_post, mbus_get or mbus_delete: its flags,
               \* where it is, and what it has done on the bus and on disk
    writer     \* the LaTeX writer: the three versions of a model element
               \* and what RenderElement returned for them

vars ==
    <<input, scanned, scanErr, p, pc, ret, failedAt, trace, stdout, mbus,
      writer>>

\* the parser's programs do not run the bus applications or the writer
NoRun == [program |-> "-"]
NoWriter == [rendered |-> "-"]

NoErr == "nil"
ErrTooLong == "bufio.ErrTooLong"
ReadErr == "read error"

NotReturned == [model |-> "-", err |-> "-"]

Init ==
    /\ input \in Inputs
    /\ scanned = 0
    /\ scanErr = NoErr
    /\ p = NewParser
    /\ pc = "loop"
    /\ ret = NotReturned
    /\ failedAt = 0
    /\ trace = << >>
    /\ stdout = << >>
    /\ mbus = NoRun
    /\ writer = NoWriter

\* the branches in which a parse helper recognised the line
Recognised == {"attribute", "method", "entity", "relationship", "constraint"}

\* the body of the loop on one token
Consume(text) ==
    \E r \in {LoopBody(text, p)} :
        /\ p' = r.p
        /\ trace' = Append(trace,
                           [branch |-> r.branch,
                            line   |-> IF r.branch \in Recognised
                                       THEN TrimSpace(text) ELSE << >>])
        /\ scanned' = scanned + 1

\* p.scanner.Scan() returns true with the next line, and the body runs
ScanLine ==
    /\ pc = "loop" /\ scanErr = NoErr
    /\ scanned < Len(input)
    /\ ~TooLong(input[scanned + 1])
    /\ Consume(Text(input[scanned + 1]))
    /\ UNCHANGED <<input, scanErr, pc, ret, failedAt, stdout, mbus, writer>>

\* p.scanner.Scan() returns false: the next line does not fit the buffer
ScanTooLong ==
    /\ pc = "loop" /\ scanErr = NoErr
    /\ scanned < Len(input)
    /\ TooLong(input[scanned + 1])
    /\ scanErr' = ErrTooLong
    /\ pc' = "exit"
    /\ UNCHANGED <<input, scanned, p, ret, failedAt, trace, stdout,
                   mbus, writer>>

\* p.scanner.Scan() returns false: the end of the input
ScanEOF ==
    /\ pc = "loop" /\ scanErr = NoErr
    /\ scanned = Len(input)
    /\ pc' = "exit"
    /\ UNCHANGED <<input, scanned, scanErr, p, ret, failedAt, trace, stdout,
                   mbus, writer>>

\* The reader fails inside the next line: Scan hands out what was read of
\* it, the body runs on that, and the error stays with the scanner.
ReadFailsInLine ==
    /\ pc = "loop" /\ scanErr = NoErr
    /\ scanned < Len(input)
    /\ \E text \in PartialTokens(input[scanned + 1]) : Consume(text)
    /\ scanErr' = ReadErr
    /\ failedAt' = scanned + 1
    /\ UNCHANGED <<input, pc, ret, stdout, mbus, writer>>

\* The reader fails before it delivers a byte of the next line (or at the
\* end of the input): Scan returns false.
ReadFails ==
    /\ pc = "loop" /\ scanErr = NoErr
    /\ scanErr' = ReadErr
    /\ failedAt' = scanned + 1
    /\ pc' = "exit"
    /\ UNCHANGED <<input, scanned, p, ret, trace, stdout, mbus, writer>>

\* p.scanner.Scan() returns false once the reader has failed
ScanAfterError ==
    /\ pc = "loop" /\ scanErr # NoErr
    /\ pc' = "exit"
    /\ UNCHANGED <<input, scanned, scanErr, p, ret, failedAt, trace, stdout,
                   mbus, writer>>

\* the return with a slip: the model is handed back beside the error
Return_HandsModelBack ==
    /\ pc = "exit"
    /\ ret' = [model |-> "p.model", err |-> scanErr]
    /\ pc' = "returned"
    /\ UNCHANGED <<input, scanned, scanErr, p, failedAt, trace, stdout,
                   mbus, writer>>

\* the return with a slip: the check of p.scanner.Err() is missing
Return_IgnoresErr ==
    /\ pc = "exit"
    /\ ret' = [model |-> "p.model", err |-> NoErr]
    /\ pc' = "returned"
    /\ UNCHANGED <<input, scanned, scanErr, p, failedAt, trace, stdout,
                   mbus, writer>>

\* the return with a slip: a class body still open at the end of the input
\* is reported as an error
Return_RejectsOpenBody ==
    /\ pc = "exit"
    /\ ret' = IF scanErr # NoErr
              THEN [model |-> "nil", err |-> scanErr]
              ELSE IF p.currentClass # NilPtr
              THEN [model |-> "nil", err |-> "unterminated class body"]
              ELSE [model |-> "p.model", err |-> NoErr]
    /\ pc' = "returned"
    /\ UNCHANGED <<input, scanned, scanErr, p, failedAt, trace, stdout,
                   mbus, writer>>

\* lines 128-132: the error check and the two returns
Return ==
    /\ pc = "exit"
    /\ ret' = IF scanErr # NoErr
              THEN [model |-> "nil", err |-> scanErr]
              ELSE [model |-> "p.model", err |-> NoErr]
    /\ pc' = "returned"
    /\ UNCHANGED <<input, scanned, scanErr, p, failedAt, trace, stdout,
                   mbus, writer>>

Next ==
    \/ ScanLine
    \/ ScanTooLong
    \/ ScanEOF
    \/ ReadFailsInLine
    \/ ReadFails
    \/ ScanAfterError
    \/ Return

Spec == Init /\ [][Next]_vars

(***************************************************************************)
(* Parse as a function of the lines of a reader that does not fail: the    *)
(* parser it ends with and the error it returns.                           *)
(***************************************************************************)
RECURSIVE ParseLines(_, _)
ParseLines(lines, q) ==
    IF lines = << >> THEN [p |-> q, err |-> NoErr]
    ELSE IF TooLong(Head(lines)) THEN [p |-> q, err |-> ErrTooLong]
    ELSE ParseLines(Tail(lines), LoopBody(Text(Head(lines)), q).p)


(***************************************************************************)
(* Single lines.  The helpers that match a line are functions of the line  *)
(* and of whether a body is open, so they are also run on one line at a    *)
(* time, drawn from larger families than the lines above: lines of up to   *)
(* MaxWords words that the expressions could confuse, and relationship and *)
(* constraint lines put together from their parts.  The line is read at    *)
(* the top level or inside the body that ClassALine opens, from a reader   *)
(* that does not fail.  Beside its text such a line records what it was    *)
(* written from (form, parts); Parse sees the text only.                   *)
(***************************************************************************)
\* the most words a line of Words has
MaxWords == 5

\* words that more than one expression has a place for: keywords that are
\* also names, a name that is also a connector, the colon, a quoted
\* multiplicity and a name with a parameter list
Vocabulary ==
    {<<"c", "l", "a", "s", "s">>,
     <<"c", "o", "n", "s", "t", "r", "a", "i", "n", "t">>, <<"o", "n">>,
     <<"o">>, <<":">>, <<"\"", "1", "\"">>, <<"f", "(", ")">>}

RECURSIVE Join(_)
\* the words of ws with one space between them
Join(ws) ==
    IF ws = << >> THEN << >>
    ELSE IF Len(ws) = 1 THEN ws[1]
    ELSE ws[1] \o <<" ">> \o Join(Tail(ws))

\* the lines of one to MaxWords words
WordLines ==
    {[pad |-> 0, text |-> Join(ws), form |-> "words", parts |-> ws] :
         ws \in UNION {[1..n -> Vocabulary] : n \in 1..MaxWords}}

\* the empty string
Empty == << >>

\* entity names
Names ==
    {<<"A">>, <<"B">>, <<"S", "t", "u", "d", "e", "n", "t">>,
     <<"S", "t", "u", "d", "y", "P", "r", "o", "g", "r", "a", "m", "m", "e">>}

\* multiplicities, as written between the quotes
Multiplicities ==
    {<<"1">>, <<"0", ".", ".", "*">>}

\* connectors as a diagram may write them, with and without characters
\* outside [-.o*<|]
Connectors ==
    {<<"-", "-">>, <<"<", "|", "-", "-">>, <<"o", "-", "-">>,
     <<"*", "-", "-">>, <<".", ".">>, <<"|">>, <<"-", "-", ">">>,
     <<"-", ">">>, <<".", ".", ">">>, <<"-", "-", "|", ">">>,
     <<"x", "-", "-">>, <<"<", "-", ">">>}

\* labels
Labels ==
    {<<"r", " ", "s">>, <<"e", "n", "r", "o", "l", "l", "e", "d">>}

\* "m" for a multiplicity m, nothing for an absent one
Quoted(m) == IF m = Empty THEN Empty ELSE <<"\"">> \o m \o <<"\"">>

\* The parts of a relationship line: the two names, the connector and the
\* three optional parts (Empty when absent), and how much white space the
\* line has where it is optional.
RelationParts ==
    [From : Names, FromMultiplicity : Multiplicities \cup {Empty},
     Type : Connectors, ToMultiplicity : Multiplicities \cup {Empty},
     To : Names, Label : Labels \cup {Empty}, wide : BOOLEAN]

\* the line that writes the parts r:  A "1" -- "0..*" B : r  when wide,
\* A"1" --"0..*" B:r  otherwise
RelationText(r) ==
    LET gap == IF r.wide THEN <<" ">> ELSE Empty
    IN  r.From
        \o (IF r.FromMultiplicity = Empty THEN Empty
            ELSE gap \o Quoted(r.FromMultiplicity))
        \o <<" ">> \o r.Type
        \o (IF r.ToMultiplicity = Empty THEN Empty
            ELSE gap \o Quoted(r.ToMultiplicity))
        \o <<" ">> \o r.To
        \o (IF r.Label = Empty THEN Empty
            ELSE gap \o <<":">> \o gap \o r.Label)

RelationLines ==
    {[pad |-> 0, text |-> RelationText(r), form |-> "relationship",
      parts |-> r] : r \in RelationParts}

\* constraint kinds
Kinds ==
    {<<"u", "n", "i", "q", "u", "e">>, <<"u">>}

\* constraint expressions
Expressions ==
    {<<"s", "t", "u", "d", "e", "n", "t", "N", "u", "m", "b", "e", "r">>,
     <<"x", " ", ">", " ", "0">>, <<"a", " ", ":", " ", "b">>}

\* the parts of a constraint line
ConstraintParts ==
    [Kind : Kinds, Target : Names, Expr : Expressions, wide : BOOLEAN]

\* the line that writes the parts c:  constraint unique on Student : x
\* when wide,  constraint unique on Student:x  otherwise
ConstraintText(c) ==
    LET gap == IF c.wide THEN <<" ">> ELSE Empty
    IN  ConstraintWord \o <<" ">> \o c.Kind \o <<" ">> \o OnWord \o <<" ">>
        \o c.Target \o gap \o <<":">> \o gap \o c.Expr

ConstraintLines ==
    {[pad |-> 2, text |-> ConstraintText(c), form |-> "constraint",
      parts |-> c] : c \in ConstraintParts}

\* what may stand before and after a closing brace on its line: nothing,
\* white space, or text of the kinds a diagram has
BeforeBrace ==
    {Empty, <<" ">>, <<"x", " ">>, <<"x", " ", ":", " ", "T", " ">>,
     <<"A", " ", "-", "-", " ", "B", " ", ":", " ">>, <<"f", "(">>,
     <<"c", "l", "a", "s", "s", " ", "A", " ">>, <<"{">>, <<"}">>,
     <<"'">>}

AfterBrace ==
    {Empty, <<" ">>, <<"\t">>, <<" ", "x">>, <<")", " ", ":", " ", "T">>,
     <<"}">>, <<",">>}

\* s is white space only
AllSpace(s) == \A k \in 1..Len(s) : s[k] \in SpaceChar

\* the lines with a closing brace: alone on the line but for white space,
\* or with other text beside it
BraceLines ==
    {[pad |-> n, text |-> b \o CloseBrace \o a, form |-> "brace",
      parts |-> [before |-> b, after |-> a,
                 alone |-> AllSpace(b) /\ AllSpace(a)]] :
         n \in {0, 2}, b \in BeforeBrace, a \in AfterBrace}

\* words that may lead a line shaped like the header of an entity: the
\* three keywords, and words that are none of them
LeadingWords ==
    {Keywords[1], Keywords[2], Keywords[3],
     <<"i", "n", "t", "e", "r", "f", "a", "c", "e">>, <<"e", "n", "u", "m">>,
     <<"C", "l", "a", "s", "s">>, <<"a", "b", "s", "t", "r", "a", "c", "t">>,
     <<"c", "l", "a", "s", "s", "e", "s">>, <<"o", "b", "j">>}

\* what may follow the name on such a line
HeaderEnds == {Empty, <<" ", "{">>, <<"{">>}

\* the lines word name, word name { and word name{
HeaderShapedLines ==
    {[pad |-> 0, text |-> w \o <<" ">> \o n \o e, form |-> "header",
      parts |-> [word |-> w, name |-> n,
                 keyword |-> \E k \in 1..Len(Keywords) : w = Keywords[k]]] :
         w \in LeadingWords, n \in Names, e \in HeaderEnds}

\* the lines that are followed by an attribute line, to see which body is
\* open after them
FollowedLines == BraceLines \cup HeaderShapedLines

\* the line l was written from parts as a line of the given form
IsWritten(l, form) == "form" \in DOMAIN l /\ l.form = form

\* one line at the top level, or one line after the header of a class; a
\* line with a brace or shaped like a header also with an attribute line
\* after it
LineInputs ==
    {<<l>> : l \in RelationLines \cup ConstraintLines \cup FollowedLines}
    \cup {<<ClassALine, l>> :
              l \in WordLines \cup RelationLines \cup ConstraintLines
                     \cup FollowedLines}
    \cup {<<l, AttributeLine>> : l \in FollowedLines}
    \cup {<<ClassALine, l, AttributeLine>> : l \in FollowedLines}

LineInit ==
    /\ input \in LineInputs
    /\ scanned = 0
    /\ scanErr = NoErr
    /\ p = NewParser
    /\ pc = "loop"
    /\ ret = NotReturned
    /\ failedAt = 0
    /\ trace = << >>
    /\ stdout = << >>
    /\ mbus = NoRun
    /\ writer = NoWriter

\* Parse on a reader that does not fail and whose lines fit the buffer
LineNext ==
    \/ ScanLine
    \/ ScanEOF
    \/ Return

LineSpec == LineInit /\ [][LineNext]_vars

(***************************************************************************)
(* What the properties speak of.                                           *)
(***************************************************************************)
\* the entity the model holds under name n
EntityOf(n) == p.heap[p.model.Entities[n]]

EntityNames == DOMAIN p.model.Entities

Max(S) == CHOOSE x \in S : \A y \in S : y <= x
Min(S) == CHOOSE x \in S : \A y \in S : x <= y

\* The tokens that were whole lines: all the scanner handed out, but the
\* last one when the reader failed inside it.
WholeLines ==
    1..(IF failedAt > 0 /\ failedAt = scanned THEN scanned - 1 ELSE scanned)

\* line i of the input as Parse sees it after trimming
Trimmed(i) == TrimSpace(Text(input[i]))

\* the positions lo..hi-1 of the trace whose token took branch b, in order
Indices(b, lo, hi) ==
    SelectSeq([i \in 1..Len(trace) |-> i],
              LAMBDA i : lo <= i /\ i < hi /\ trace[i].branch = b)

\* the name a recognised entity header declares
HeaderName(i) == entityRegex(trace[i].line)[2]

\* the recognised headers that declare name n
Headers(n) ==
    {i \in 1..Len(trace) : trace[i].branch = "entity" /\ HeaderName(i) = n}

\* the tokens that open or close a body
ScopeTokens(k) == {i \in 1..k : trace[i].branch \in {"entity", "close"}}

\* where the body that header h opens ends: at the next scope-close, the
\* next header, or the end of what was read
BodyEnd(h) ==
    Min({i \in (h + 1)..Len(trace) : trace[i].branch \in {"entity", "close"}}
        \cup {Len(trace) + 1})

\* after k tokens: is a body open according to the lines read, and whose
BodyOpenAfter(k) ==
    /\ ScopeTokens(k) # {}
    /\ trace[Max(ScopeTokens(k))].branch = "entity"

OpenNameAfter(k) == HeaderName(Max(ScopeTokens(k)))

\* the fragments of recognised lines
AttributeOf(line) ==
    Bind(attributeRegex(line), LAMBDA m : [Name |-> m[1], Type |-> m[2]])

MethodOf(line) ==
    Bind(methodRegex(line), LAMBDA m : [Name |-> m[1], ReturnType |-> m[2]])

RelationshipOf(line) ==
    Bind(relationRegex(line), LAMBDA m :
        [From             |-> m[1],
         FromMultiplicity |-> TrimQuotes(m[2]),
         Type             |-> m[3],
         ToMultiplicity   |-> TrimQuotes(m[4]),
         To               |-> m[5],
         Label            |-> m[7]])

ConstraintOf(line) ==
    Bind(constraintRegex(line), LAMBDA m :
        [Kind |-> m[1], Target |-> m[2], Expr |-> m[3]])

\* the attributes (methods) declared by the tokens lo..hi-1, in order
AttributesIn(lo, hi) ==
    LET idx == Indices("attribute", lo, hi)
    IN  [k \in 1..Len(idx) |-> AttributeOf(trace[idx[k]].line)]

MethodsIn(lo, hi) ==
    LET idx == Indices("method", lo, hi)
    IN  [k \in 1..Len(idx) |-> MethodOf(trace[idx[k]].line)]

(***************************************************************************)
(* C1.  Entity uniqueness: the entities mapping holds exactly one entry    *)
(* per declared name, and the entity stored under a name is the one the    *)
(* last header for that name created: it carries the attributes and the    *)
(* methods declared in the body that this last header opened and nothing   *)
(* of what earlier headers for the name had collected.                     *)
(***************************************************************************)
C1_EntityUniqueness ==
    /\ EntityNames =
           {HeaderName(i) : i \in {j \in 1..Len(trace) :
                                       trace[j].branch = "entity"}}
    /\ \A n \in EntityNames :
           LET h == Max(Headers(n))
           IN  /\ EntityOf(n).Name = n
               /\ EntityOf(n).Attributes = AttributesIn(h + 1, BodyEnd(h))
               /\ EntityOf(n).Methods = MethodsIn(h + 1, BodyEnd(h))

\* a second header for a name whose first entity had collected an
\* attribute: the stored entity is fresh and empty
C1_Witness ==
    \E n \in EntityNames :
        /\ Cardinality(Headers(n)) >= 2
        /\ \E e \in 1..Len(p.heap) :
               p.heap[e].Name = n /\ p.heap[e].Attributes # << >>
        /\ EntityOf(n).Attributes = << >>
        /\ EntityOf(n).Methods = << >>

(***************************************************************************)
(* C2.  Order preservation: the relationships and the constraints of the   *)
(* model are the fragments of the lines recognised as relationships and    *)
(* as constraints, one element per line, in the order of the lines; and    *)
(* every whole line that has the relationship (constraint) form is one of  *)
(* them.                                                                   *)
(***************************************************************************)
C2_OrderPreservation ==
    LET r == Indices("relationship", 1, Len(trace) + 1)
        c == Indices("constraint", 1, Len(trace) + 1)
    IN  /\ p.model.Relationships =
               [k \in 1..Len(r) |-> RelationshipOf(trace[r[k]].line)]
        /\ p.model.Constraints =
               [k \in 1..Len(c) |-> ConstraintOf(trace[c[k]].line)]
        /\ \A i \in WholeLines :
               /\ relationRegex(Trimmed(i)) # NoMatch
                      <=> trace[i].branch = "relationship"
               /\ constraintRegex(Trimmed(i)) # NoMatch
                      <=> trace[i].branch = "constraint"

\* two different relationships, in the order of their lines, and a
\* constraint
C2_Witness ==
    /\ Len(p.model.Relationships) >= 2
    /\ p.model.Relationships[1] # p.model.Relationships[2]
    /\ Len(p.model.Constraints) >= 1

(***************************************************************************)
(* Steps and lines.                                                        *)
(***************************************************************************)
\* this step runs the loop body on the whole next line of the input
WholeLineStep == scanned' = scanned + 1 /\ scanErr' = NoErr

\* the trimmed line that such a step consumes
NextLine == Trimmed(scanned + 1)

\* this step leaves every entity of the heap as it was, and an entity it
\* creates has no attribute and no method
NoEntityChanged ==
    /\ Len(p'.heap) >= Len(p.heap)
    /\ \A e \in 1..Len(p.heap) : p'.heap[e] = p.heap[e]
    /\ \A e \in (Len(p.heap) + 1)..Len(p'.heap) :
           p'.heap[e].Attributes = << >> /\ p'.heap[e].Methods = << >>

\* a line that is neither ignored nor a scope-close
IsContent(line) ==
    /\ line # << >>
    /\ ~HasPrefix(line, AtSign)
    /\ ~HasPrefix(line, Apostrophe)
    /\ line # CloseBrace

\* a content line that none of the matchers tried in parser state q
\* recognises
Unrecognised(line, q) ==
    /\ IsContent(line)
    /\ entityRegex(line) = NoMatch
    /\ relationRegex(line) = NoMatch
    /\ constraintRegex(line) = NoMatch
    /\ q.currentClass # NilPtr =>
           attributeRegex(line) = NoMatch /\ methodRegex(line) = NoMatch

\* a line of the input that Parse ignores: empty after trimming, a
\* directive or a comment (the indentation is white space, so trimming the
\* text trims the line)
IsNoise(l) ==
    LET line == TrimSpace(l.text)
    IN  line = << >> \/ HasPrefix(line, AtSign) \/ HasPrefix(line, Apostrophe)

\* what Parse returns when ParseLines ends with r
ReturnOf(r) ==
    IF r.err # NoErr THEN [model |-> "nil", err |-> r.err]
    ELSE [model |-> "p.model", err |-> NoErr]

(***************************************************************************)
(* C3.  Scope correctness: while no entity body is open according to the   *)
(* lines read (before the first header, or after a scope-close and before  *)
(* the next header), no token is taken as an attribute or a method and no  *)
(* entity gains one, whatever the form of the line.                        *)
(***************************************************************************)
C3_ScopeCorrectness ==
    [][ ~BodyOpenAfter(Len(trace)) =>
            /\ NoEntityChanged
            /\ \A i \in (Len(trace) + 1)..Len(trace') :
                   trace'[i].branch \notin {"attribute", "method"} ]_vars

\* after a scope-close, with an entity declared, a whole line of attribute
\* form was read and dropped
C3_Witness ==
    /\ scanned >= 2 /\ scanned \in WholeLines
    /\ attributeRegex(Trimmed(scanned)) # NoMatch
    /\ ScopeTokens(scanned - 1) # {}
    /\ ~BodyOpenAfter(scanned - 1)
    /\ trace[scanned].branch = "none"
    /\ EntityNames # {}

(***************************************************************************)
(* C4.  Noise tolerance, as claimed: with a reader that does not fail,     *)
(* Parse returns for an input what it returns for the input without its    *)
(* ignored lines (empty after trimming, or starting with ' or @), and      *)
(* ends in the same parser state.                                          *)
(***************************************************************************)
C4_NoiseTolerance ==
    (pc = "returned" /\ failedAt = 0) =>
        LET r == ParseLines(SelectSeq(input, LAMBDA l : ~IsNoise(l)),
                            NewParser)
        IN  ret = ReturnOf(r) /\ p = r.p

(***************************************************************************)
(* C5.  Parse returns an error only when the reader failed, as claimed:    *)
(* with a reader that does not fail Parse consumes every line and returns  *)
(* the model and a nil error.                                              *)
(***************************************************************************)
C5_ErrorOnlyWhenReaderFails ==
    pc = "returned" =>
        /\ ret.err # NoErr => failedAt > 0
        /\ failedAt = 0 =>
               /\ scanned = Len(input)
               /\ ret = [model |-> "p.model", err |-> NoErr]

(***************************************************************************)
(* C6.  What the parser holds once the reader has failed at line failedAt: *)
(* what parsing the lines before it yields, and on top of that at most     *)
(* what the part of the failing line that was already read yields.         *)
(***************************************************************************)
RetainedAfterFailure ==
    LET q == ParseLines(SubSeq(input, 1, failedAt - 1), NewParser).p
    IN  \/ p = q
        \/ /\ failedAt <= Len(input)
           /\ \E text \in PartialTokens(input[failedAt]) :
                  p = LoopBody(text, q).p

\* C6 as claimed: when the reader fails, Parse returns the error and hands
\* back the model with everything parsed before the failing line.
C6_PartialModelHandedBack ==
    (pc = "returned" /\ failedAt > 0) =>
        /\ ret.err = ReadErr
        /\ ret.model = "p.model"
        /\ RetainedAfterFailure

\* C6 as amended: when the reader fails, Parse reads no further line and
\* returns the error with a nil model; what was parsed before the failing
\* line stays in the parser's own model and is not handed back.
C6_PartialModelKeptByParser ==
    (pc = "returned" /\ failedAt > 0) =>
        /\ ret = [model |-> "nil", err |-> ReadErr]
        /\ scanned <= failedAt
        /\ RetainedAfterFailure

\* the reader failed inside the third line or later, the part read of it
\* was recognised, and Parse returned
C6_Witness ==
    /\ pc = "returned"
    /\ failedAt >= 3 /\ failedAt = scanned
    /\ trace[scanned].branch \in Recognised
    /\ trace[1].branch \in Recognised
    /\ ret.model = "nil"

(***************************************************************************)
(* C7.  When the reader fails, Parse returns the reader's error together   *)
(* with a nil model, whatever was recognised before.                       *)
(***************************************************************************)
C7_NilModelOnReadError ==
    (pc = "returned" /\ failedAt > 0) =>
        ret.model = "nil" /\ ret.err = ReadErr

\* Parse returned nil and the error although the parser holds an entity
\* and a relationship
C7_Witness ==
    /\ pc = "returned" /\ failedAt > 0
    /\ ret = [model |-> "nil", err |-> ReadErr]
    /\ EntityNames # {}
    /\ Len(p.model.Relationships) >= 1

(***************************************************************************)
(* C8.  A whole content line that no matcher tried in the current state    *)
(* recognises leaves the parser (model, heap and open body) as it was;     *)
(* and what the parser holds is what it would hold had the dropped lines   *)
(* not been in the input.                                                  *)
(***************************************************************************)
WithoutDropped ==
    LET kept == SelectSeq([i \in 1..scanned |-> i],
                          LAMBDA i : trace[i].branch # "none")
    IN  [k \in 1..Len(kept) |-> input[kept[k]]]

AsIfDroppedAbsent ==
    failedAt = 0 => p = ParseLines(WithoutDropped, NewParser).p

C8_UnmatchedLineDropped ==
    [][ /\ (WholeLineStep /\ Unrecognised(NextLine, p)) =>
               p' = p /\ trace'[Len(trace')].branch = "none"
        /\ AsIfDroppedAbsent ]_vars

\* inside an open body a whole line that nothing recognises was read, and
\* the body is still open
C8_Witness ==
    /\ scanned >= 2 /\ scanned \in WholeLines
    /\ Unrecognised(Trimmed(scanned), p)
    /\ trace[scanned].branch = "none"
    /\ BodyOpenAfter(scanned)
    /\ p.currentClass # NilPtr

(***************************************************************************)
(* C9.  A scope-close line read while a body is open makes currentClass    *)
(* nil and changes neither the model nor any entity; and from a            *)
(* scope-close on, until the next recognised header, no step changes an    *)
(* entity.                                                                 *)
(***************************************************************************)
ClosedAfter(k) ==
    /\ ScopeTokens(k) # {}
    /\ trace[Max(ScopeTokens(k))].branch = "close"

C9_ScopeCloseClosesBody ==
    [][ /\ (WholeLineStep /\ NextLine = CloseBrace /\ BodyOpenAfter(Len(trace)))
               => /\ p'.currentClass = NilPtr
                  /\ p'.heap = p.heap
                  /\ p'.model = p.model
                  /\ ClosedAfter(Len(trace))'
        /\ ClosedAfter(Len(trace)) => NoEntityChanged ]_vars

\* header, scope-close, then a whole line of attribute or method form:
\* the entity has neither an attribute nor a method
C9_Witness ==
    /\ scanned >= 3 /\ scanned \in WholeLines
    /\ trace[scanned - 2].branch = "entity"
    /\ trace[scanned - 1].branch = "close"
    /\ (attributeRegex(Trimmed(scanned)) # NoMatch
           \/ methodRegex(Trimmed(scanned)) # NoMatch)
    /\ p.currentClass = NilPtr
    /\ \A e \in 1..Len(p.heap) :
           p.heap[e].Attributes = << >> /\ p.heap[e].Methods = << >>

(***************************************************************************)
(* C10.  Every whole line of header form, with or without the brace, is    *)
(* recognised in either state: the map holds a fresh empty entity under    *)
(* the name and it is the current class.  While a body is open according   *)
(* to the lines read (since a header, with no scope-close or header        *)
(* after it), a whole line of attribute form appends its attribute, and a  *)
(* whole line of method form its method, to the entity stored under the    *)
(* header's name.                                                          *)
(***************************************************************************)
C10_HeaderOpensBody ==
    [][ WholeLineStep =>
          /\ entityRegex(NextLine) # NoMatch =>
                 LET n == entityRegex(NextLine)[2]
                 IN  /\ n \in DOMAIN p'.model.Entities
                     /\ p'.currentClass = p'.model.Entities[n]
                     /\ p'.heap[p'.currentClass] =
                            [Name |-> n, Attributes |-> << >>,
                             Methods |-> << >>]
          /\ (BodyOpenAfter(Len(trace)) /\ attributeRegex(NextLine) # NoMatch) =>
                 LET n == OpenNameAfter(Len(trace))
                 IN  p'.heap[p'.model.Entities[n]] =
                         [EntityOf(n) EXCEPT !.Attributes =
                             Append(@, AttributeOf(NextLine))]
          /\ (BodyOpenAfter(Len(trace)) /\ methodRegex(NextLine) # NoMatch) =>
                 LET n == OpenNameAfter(Len(trace))
                 IN  p'.heap[p'.model.Entities[n]] =
                         [EntityOf(n) EXCEPT !.Methods =
                             Append(@, MethodOf(NextLine))] ]_vars

\* a header without the brace was recognised and its entity holds an
\* attribute and a method
C10_Witness ==
    \E i \in WholeLines :
        /\ trace[i].branch = "entity"
        /\ Trimmed(i)[Len(Trimmed(i))] # "{"
        /\ EntityOf(HeaderName(i)).Attributes # << >>
        /\ EntityOf(HeaderName(i)).Methods # << >>

(***************************************************************************)
(* C11.  A whole line of header form read while another body is open       *)
(* (no scope-close since its header) is taken as a header: a fresh entity  *)
(* is stored under its name and becomes the current class, and the entity  *)
(* that was open is left as it is.  From then on the entity that every     *)
(* header created holds the attributes and methods of the lines between    *)
(* that header and the next header or scope-close, and no later ones.      *)
(***************************************************************************)
\* the heap cell of the entity that the header at token h created
CellOf(h) == Cardinality({i \in 1..h : trace[i].branch = "entity"})

EachHeaderKeepsItsBody ==
    \A h \in {i \in 1..Len(trace) : trace[i].branch = "entity"} :
        p.heap[CellOf(h)] =
            [Name       |-> HeaderName(h),
             Attributes |-> AttributesIn(h + 1, BodyEnd(h)),
             Methods    |-> MethodsIn(h + 1, BodyEnd(h))]

C11_HeaderInsideOpenBody ==
    [][ /\ (/\ WholeLineStep
            /\ BodyOpenAfter(Len(trace))
            /\ entityRegex(NextLine) # NoMatch) =>
               LET n == entityRegex(NextLine)[2]
               IN  /\ trace'[Len(trace')].branch = "entity"
                   /\ p.currentClass # NilPtr
                   /\ p'.currentClass = Len(p.heap) + 1
                   /\ p'.currentClass # p.currentClass
                   /\ p'.model.Entities[n] = p'.currentClass
                   /\ p'.heap = NewEntity(p.heap, n)
        /\ EachHeaderKeepsItsBody ]_vars

\* header, second header, then an attribute or a method: the first entity
\* holds nothing and the second entity what followed its header
C11_Witness ==
    /\ scanned >= 3 /\ scanned \in WholeLines
    /\ trace[scanned - 2].branch = "entity"
    /\ trace[scanned - 1].branch = "entity"
    /\ trace[scanned].branch \in {"attribute", "method"}
    /\ HeaderName(scanned - 2) # HeaderName(scanned - 1)
    /\ EntityOf(HeaderName(scanned - 2)).Attributes = << >>
    /\ EntityOf(HeaderName(scanned - 2)).Methods = << >>
    /\ p.currentClass = p.model.Entities[HeaderName(scanned - 1)]
    /\ Len(EntityOf(HeaderName(scanned - 1)).Attributes)
           + Len(EntityOf(HeaderName(scanned - 1)).Methods) = 1

(***************************************************************************)
(* C12.  A step changes at most the entity whose body is open, and that    *)
(* only by appending to its attributes or methods.  The current class is   *)
(* the entity of the last header when no scope-close followed it, and nil  *)
(* otherwise; it only ever moves to nil or to a fresh entity, so an entity *)
(* whose body was closed, or whose header was followed by another header,  *)
(* is never the current class again and keeps what it held.                *)
(***************************************************************************)
\* s is t, or t with one element appended
SameOrOneMore(s, t) == s = t \/ (Len(s) = Len(t) + 1 /\ SubSeq(s, 1, Len(t)) = t)

C12_OnlyOpenEntityChanges ==
    [][ /\ \A e \in 1..Len(p.heap) :
               /\ e # p.currentClass => p'.heap[e] = p.heap[e]
               /\ p'.heap[e].Name = p.heap[e].Name
               /\ SameOrOneMore(p'.heap[e].Attributes, p.heap[e].Attributes)
               /\ SameOrOneMore(p'.heap[e].Methods, p.heap[e].Methods)
        /\ p.currentClass =
               IF BodyOpenAfter(Len(trace))
               THEN CellOf(Max(ScopeTokens(Len(trace))))
               ELSE NilPtr
        /\ p'.currentClass \in {p.currentClass, NilPtr, Len(p.heap) + 1}
        /\ p'.currentClass = Len(p.heap) + 1 => Len(p'.heap) = Len(p.heap) + 1
      ]_vars

\* header, method, then a whole line that is a header or a scope-close: the
\* first entity is no longer the current class and still holds its method
C12_Witness ==
    /\ scanned = 3 /\ scanned \in WholeLines
    /\ trace[1].branch = "entity"
    /\ trace[2].branch = "method"
    /\ trace[3].branch \in {"entity", "close"}
    /\ p.currentClass # 1
    /\ p.heap[1].Methods = <<MethodOf(trace[2].line)>>

(***************************************************************************)
(* C13.  When the scanner reaches the end of the input while a body is     *)
(* open (a header with no scope-close after it), Parse has consumed every  *)
(* line and returns the model with a nil error; the model holds the open   *)
(* entity with the attributes and methods of all the lines after its       *)
(* header.                                                                 *)
(***************************************************************************)
C13_OpenBodyAtEndOfInput ==
    (pc = "returned" /\ scanErr = NoErr /\ BodyOpenAfter(Len(trace))) =>
        LET h == Max(ScopeTokens(Len(trace)))
            n == HeaderName(h)
        IN  /\ ret = [model |-> "p.model", err |-> NoErr]
            /\ scanned = Len(input)
            /\ n \in EntityNames
            /\ p.model.Entities[n] = p.currentClass
            /\ EntityOf(n) =
                   [Name       |-> n,
                    Attributes |-> AttributesIn(h + 1, Len(trace) + 1),
                    Methods    |-> MethodsIn(h + 1, Len(trace) + 1)]

\* Parse returned at the end of an input of a header, an attribute and a
\* method, with no scope-close
C13_Witness ==
    /\ pc = "returned" /\ scanErr = NoErr
    /\ Len(input) = 3 /\ scanned = 3
    /\ trace[1].branch = "entity"
    /\ trace[2].branch = "attribute"
    /\ trace[3].branch = "method"
    /\ ret = [model |-> "p.model", err |-> NoErr]
    /\ EntityOf(HeaderName(1)).Attributes # << >>
    /\ EntityOf(HeaderName(1)).Methods # << >>

(***************************************************************************)
(* C14.  A step folds at most one fragment into the model: of the number   *)
(* of entities created, of attributes, of methods, of relationships and of *)
(* constraints, at most one grows, and by one; none shrinks.  What a       *)
(* recognised token adds is the fragment of its branch.                    *)
(***************************************************************************)
RECURSIVE MemberCount(_, _)
\* the number of attributes (field = "Attributes") or methods of a heap
MemberCount(heap, field) ==
    IF heap = << >> THEN 0
    ELSE Len(Head(heap)[field]) + MemberCount(Tail(heap), field)

\* how many fragments of each kind the parser q holds
Counts(q) ==
    [entity       |-> Len(q.heap),
     attribute    |-> MemberCount(q.heap, "Attributes"),
     method       |-> MemberCount(q.heap, "Methods"),
     relationship |-> Len(q.model.Relationships),
     constraint   |-> Len(q.model.Constraints)]

C14_OneFragmentPerLine ==
    [][ Bind(Counts(p), LAMBDA before : Bind(Counts(p'), LAMBDA after :
        Bind({k \in Recognised : after[k] # before[k]}, LAMBDA grown :
            /\ \A k \in grown : after[k] = before[k] + 1
            /\ Cardinality(grown) <= 1
            /\ Len(trace') <= Len(trace) + 1
            /\ grown # {} =>
                   /\ Len(trace') = Len(trace) + 1
                   /\ grown = {trace'[Len(trace')].branch}
            /\ (Len(trace') = Len(trace) + 1
                    /\ trace'[Len(trace')].branch \in Recognised) =>
                   grown = {trace'[Len(trace')].branch}))) ]_vars

\* three lines, three fragments of different kinds
C14_Witness ==
    /\ scanned = 3 /\ scanned \in WholeLines
    /\ Counts(p).entity = 1
    /\ Counts(p).attribute = 1
    /\ Counts(p).relationship = 1
    /\ Counts(p).method = 0 /\ Counts(p).constraint = 0

(***************************************************************************)
(* C15.  While the reader has not failed: the attributes of every entity   *)
(* of the model are, in the order of the lines, the fragments of exactly   *)
(* the lines of attribute form between the last header of its name and     *)
(* the end of that body, and its methods likewise those of the lines of    *)
(* method form; no line contributes to both.                               *)
(***************************************************************************)
\* the lines lo..hi-1 of the input that have attribute form, in order
AttributeLinesIn(lo, hi) ==
    SelectSeq([i \in 1..scanned |-> i],
              LAMBDA i : lo <= i /\ i < hi
                            /\ attributeRegex(Trimmed(i)) # NoMatch)

\* the lines lo..hi-1 of the input that have method form, in order
MethodLinesIn(lo, hi) ==
    SelectSeq([i \in 1..scanned |-> i],
              LAMBDA i : lo <= i /\ i < hi /\ methodRegex(Trimmed(i)) # NoMatch)

C15_MembersInTextualOrder ==
    failedAt = 0 =>
        \A n \in EntityNames :
            LET h == Max(Headers(n))
                a == AttributeLinesIn(h + 1, BodyEnd(h))
                m == MethodLinesIn(h + 1, BodyEnd(h))
            IN  /\ EntityOf(n).Attributes =
                       [k \in 1..Len(a) |-> AttributeOf(Trimmed(a[k]))]
                /\ EntityOf(n).Methods =
                       [k \in 1..Len(m) |-> MethodOf(Trimmed(m[k]))]
                /\ \A k \in 1..Len(a), j \in 1..Len(m) : a[k] # m[j]

\* Parse returned a model whose entity holds two different attributes, or
\* two different methods, in the order of the second and the third line
C15_Witness ==
    /\ pc = "returned" /\ failedAt = 0 /\ scanned = 3
    /\ trace[1].branch = "entity"
    /\ Trimmed(2) # Trimmed(3)
    /\ \/ /\ attributeRegex(Trimmed(2)) # NoMatch
          /\ attributeRegex(Trimmed(3)) # NoMatch
          /\ EntityOf(HeaderName(1)).Attributes =
                 <<AttributeOf(Trimmed(2)), AttributeOf(Trimmed(3))>>
       \/ /\ methodRegex(Trimmed(2)) # NoMatch
          /\ methodRegex(Trimmed(3)) # NoMatch
          /\ EntityOf(HeaderName(1)).Methods =
                 <<MethodOf(Trimmed(2)), MethodOf(Trimmed(3))>>

(***************************************************************************)
(* C16.  A whole line of relationship form appends its relationship, and a *)
(* whole line of constraint form its constraint, in either parser state    *)
(* and whether or not the names in it are declared; the step leaves the    *)
(* entities mapping, every entity and the current class as they were.      *)
(***************************************************************************)
C16_NoReferentialIntegrity ==
    [][ WholeLineStep =>
          /\ relationRegex(NextLine) # NoMatch =>
                 /\ p'.model.Relationships =
                        Append(p.model.Relationships, RelationshipOf(NextLine))
                 /\ p'.model.Constraints = p.model.Constraints
          /\ constraintRegex(NextLine) # NoMatch =>
                 /\ p'.model.Constraints =
                        Append(p.model.Constraints, ConstraintOf(NextLine))
                 /\ p'.model.Relationships = p.model.Relationships
          /\ (relationRegex(NextLine) # NoMatch
                  \/ constraintRegex(NextLine) # NoMatch) =>
                 /\ p'.model.Entities = p.model.Entities
                 /\ p'.heap = p.heap
                 /\ p'.currentClass = p.currentClass ]_vars

\* a relationship between two names of which only one is declared, and a
\* constraint on a name that is not declared
C16_Witness ==
    /\ scanned = 3 /\ scanned \in WholeLines
    /\ Len(p.model.Relationships) = 1
    /\ Len(p.model.Constraints) = 1
    /\ Cardinality(EntityNames) = 1
    /\ p.model.Relationships[1].From \in EntityNames
    /\ p.model.Relationships[1].To \notin EntityNames
    /\ p.model.Constraints[1].Target \notin EntityNames

(***************************************************************************)
(* C17.  The order of the matchers.                                        *)
(***************************************************************************)
\* the matchers in the order in which Parse tries them
Matchers == <<"attribute", "method", "entity", "relationship", "constraint">>

\* the same matchers in the opposite order: every pair of them is tried
\* the other way round
ReverseMatchers == [k \in 1..Len(Matchers) |-> Matchers[Len(Matchers) + 1 - k]]

\* the matchers whose expression the line matches
Matching(line) ==
    {k \in Recognised :
        CASE k = "attribute"    -> attributeRegex(line) # NoMatch
          [] k = "method"       -> methodRegex(line) # NoMatch
          [] k = "entity"       -> entityRegex(line) # NoMatch
          [] k = "relationship" -> relationRegex(line) # NoMatch
          [] k = "constraint"   -> constraintRegex(line) # NoMatch}

\* matcher k on the line in parser state q, as Parse calls it: attribute
\* and method only while a body is open
TryMatcher(k, line, q) ==
    CASE k = "attribute" ->
             IF q.currentClass = NilPtr THEN [ok |-> FALSE, p |-> q]
             ELSE Bind(parseAttribute(line, q.currentClass, q.heap), LAMBDA r :
                      [ok |-> r.ok, p |-> [q EXCEPT !.heap = r.heap]])
      [] k = "method" ->
             IF q.currentClass = NilPtr THEN [ok |-> FALSE, p |-> q]
             ELSE Bind(parseMethod(line, q.currentClass, q.heap), LAMBDA r :
                      [ok |-> r.ok, p |-> [q EXCEPT !.heap = r.heap]])
      [] k = "entity" -> parseEntity(line, q)
      [] k = "relationship" ->
             Bind(parseRelationship(line, q.model), LAMBDA r :
                 [ok |-> r.ok, p |-> [q EXCEPT !.model = r.model]])
      [] k = "constraint" ->
             Bind(parseConstraint(line, q.model), LAMBDA r :
                 [ok |-> r.ok, p |-> [q EXCEPT !.model = r.model]])

RECURSIVE TryInOrder(_, _, _)
\* the first matcher of order that recognises the line wins
TryInOrder(order, line, q) ==
    IF order = << >> THEN Dropped(q)
    ELSE Bind(TryMatcher(Head(order), line, q), LAMBDA r :
             IF r.ok THEN [p |-> r.p, branch |-> Head(order)]
             ELSE TryInOrder(Tail(order), line, q))

\* the loop body of Parse with the matchers tried in the given order
LoopBodyInOrder(order, text, q) ==
    Bind(TrimSpace(text), LAMBDA line :
        IF line = << >> \/ HasPrefix(line, AtSign) \/ HasPrefix(line, Apostrophe)
        THEN Ignored(q)
        ELSE IF line = CloseBrace THEN EndOfBody(q)
        ELSE TryInOrder(order, line, q))

RECURSIVE ParseLinesInOrder(_, _, _)
\* the parser that Parse would end with on the lines, with the matchers
\* tried in the given order
ParseLinesInOrder(order, lines, q) ==
    IF lines = << >> THEN q
    ELSE ParseLinesInOrder(order, Tail(lines),
                           LoopBodyInOrder(order, Text(Head(lines)), q).p)

\* C17 as claimed: the expressions overlap and the order of the matchers
\* is load-bearing: for some input, trying the matchers in another order
\* (here the opposite one, which swaps every pair) yields another model.
C17_OrderIsLoadBearing ==
    \E i \in LineInputs :
        \/ \E k \in 1..Len(i) :
               Cardinality(Matching(TrimSpace(Text(i[k])))) >= 2
        \/ ParseLinesInOrder(ReverseMatchers, i, NewParser)
               # ParseLinesInOrder(Matchers, i, NewParser)

\* C17 as amended: no line matches more than one of the five expressions,
\* so the order of the matchers is not load-bearing: every line takes the
\* same branch and leaves the same parser when the matchers are tried in
\* the opposite order.
C17_MatchersAreDisjoint ==
    [][ WholeLineStep =>
          /\ Cardinality(Matching(NextLine)) <= 1
          /\ LoopBodyInOrder(Matchers, Text(input[scanned + 1]), p)
                 = [p |-> p', branch |-> trace'[Len(trace')].branch]
          /\ LoopBodyInOrder(ReverseMatchers, Text(input[scanned + 1]), p)
                 = [p |-> p', branch |-> trace'[Len(trace')].branch] ]_vars

\* inside a body a line that begins with the keyword class and has a colon
\* was recognised, and as a relationship only
C17_Witness ==
    /\ scanned = 2
    /\ p.currentClass # NilPtr
    /\ HasPrefix(Trimmed(2), Keywords[1])
    /\ \E k \in 1..Len(Trimmed(2)) : Trimmed(2)[k] = ":"
    /\ Matching(Trimmed(2)) = {"relationship"}
    /\ trace[2].branch = "relationship"

(***************************************************************************)
(* C18.  A line written from two names, a connector of the characters      *)
(* - . o * < | and any choice of from-multiplicity, to-multiplicity and    *)
(* label (each present or absent, with or without the optional white       *)
(* space) appends one relationship that holds the names and the connector  *)
(* as written, each multiplicity without its quotes and the label, and     *)
(* the empty string for each part that is absent.                          *)
(***************************************************************************)
\* the characters that the specification lists for a connector
ClaimedConnectorChars == {"-", ".", "o", "*", "<", "|"}

\* the connector is made of the listed characters only
ValidConnector(c) == \A k \in 1..Len(c) : c[k] \in ClaimedConnectorChars

\* the relationship that a line written from the parts r declares
Written(r) ==
    [From             |-> r.From,
     FromMultiplicity |-> r.FromMultiplicity,
     Type             |-> r.Type,
     ToMultiplicity   |-> r.ToMultiplicity,
     To               |-> r.To,
     Label            |-> r.Label]

C18_RelationshipFields ==
    [][ (/\ WholeLineStep
         /\ IsWritten(input[scanned + 1], "relationship")
         /\ ValidConnector(input[scanned + 1].parts.Type)) =>
            /\ NextLine = RelationText(input[scanned + 1].parts)
            /\ trace'[Len(trace')].branch = "relationship"
            /\ p'.model.Relationships =
                   Append(p.model.Relationships,
                          Written(input[scanned + 1].parts)) ]_vars

\* the stored relationship of a line written without the optional white
\* space, with a to-multiplicity and a label and no from-multiplicity
C18_Witness ==
    /\ scanned = Len(input) /\ scanned >= 1
    /\ IsWritten(input[scanned], "relationship")
    /\ ~input[scanned].parts.wide
    /\ Len(p.model.Relationships) = 1
    /\ p.model.Relationships[1] = Written(input[scanned].parts)
    /\ p.model.Relationships[1].FromMultiplicity = Empty
    /\ p.model.Relationships[1].ToMultiplicity = <<"0", ".", ".", "*">>
    /\ p.model.Relationships[1].Label # Empty

(***************************************************************************)
(* C19.  A line written as a relationship is recognised exactly when its   *)
(* connector is made of the characters - . o * < | only: then the stored   *)
(* Type is the connector as written; otherwise (as with -->) the line is   *)
(* dropped and the parser stays as it was.  The Type of every relationship *)
(* that any line adds is a non-empty string of these characters.           *)
(***************************************************************************)
C19_ConnectorCharacters ==
    [][ WholeLineStep =>
          /\ IsWritten(input[scanned + 1], "relationship") =>
                 IF ValidConnector(input[scanned + 1].parts.Type)
                 THEN /\ trace'[Len(trace')].branch = "relationship"
                      /\ p'.model.Relationships[Len(p'.model.Relationships)].Type
                             = input[scanned + 1].parts.Type
                 ELSE /\ trace'[Len(trace')].branch = "none"
                      /\ p' = p
          /\ trace'[Len(trace')].branch = "relationship" =>
                 LET rel == p'.model.Relationships[Len(p'.model.Relationships)]
                 IN  /\ Len(p'.model.Relationships)
                            = Len(p.model.Relationships) + 1
                     /\ rel.Type # Empty
                     /\ ValidConnector(rel.Type) ]_vars

\* inside a body a line whose connector is --> was read and dropped
C19_Witness ==
    /\ scanned = 2
    /\ IsWritten(input[2], "relationship")
    /\ input[2].parts.Type = <<"-", "-", ">">>
    /\ input[2].parts.Label # Empty
    /\ trace[2].branch = "none"
    /\ p.model.Relationships = << >>
    /\ p.currentClass # NilPtr

(***************************************************************************)
(* C20.  A line written as  constraint <kind> on <target> : <expression>   *)
(* appends exactly one constraint, in either parser state: its Kind and    *)
(* Target are the two identifiers and its Expr is the text after the       *)
(* colon as written, whatever it holds (spaces, a comparison, a further    *)
(* colon).  Nothing else of the parser changes.                            *)
(***************************************************************************)
C20_ConstraintFields ==
    [][ (WholeLineStep /\ IsWritten(input[scanned + 1], "constraint")) =>
            LET c == input[scanned + 1].parts
            IN  /\ NextLine = ConstraintText(c)
                /\ trace'[Len(trace')].branch = "constraint"
                /\ p'.model.Constraints =
                       Append(p.model.Constraints,
                              [Kind |-> c.Kind, Target |-> c.Target,
                               Expr |-> c.Expr])
                /\ p'.model.Relationships = p.model.Relationships
                /\ p'.model.Entities = p.model.Entities
                /\ p'.heap = p.heap
                /\ p'.currentClass = p.currentClass ]_vars

\* inside a body the line  constraint unique on Student : a : b  (written
\* without the optional white space) was read and stored
C20_Witness ==
    /\ scanned = 2
    /\ p.currentClass # NilPtr
    /\ IsWritten(input[2], "constraint")
    /\ ~input[2].parts.wide
    /\ Len(p.model.Constraints) = 1
    /\ p.model.Constraints[1].Kind = <<"u", "n", "i", "q", "u", "e">>
    /\ p.model.Constraints[1].Target = <<"S", "t", "u", "d", "e", "n", "t">>
    /\ p.model.Constraints[1].Expr = <<"a", " ", ":", " ", "b">>

(***************************************************************************)
(* C21  Only a line that is exactly } after trimming ends the class body.  *)
(* A line that holds a } beside other text that is not white space is no   *)
(* end of a body: it goes to the matchers as content (unless it is a       *)
(* comment or a directive), and the body that was open stays open.         *)
(***************************************************************************)
C21_OnlyBraceAloneClosesBody ==
    [][ (WholeLineStep /\ IsWritten(input[scanned + 1], "brace")) =>
            LET l      == input[scanned + 1]
                branch == trace'[Len(trace')].branch
            IN  /\ (branch = "close") <=> l.parts.alone
                /\ l.parts.alone => p'.currentClass = NilPtr
                /\ ~l.parts.alone =>
                       /\ p'.currentClass = p.currentClass
                       /\ p'.model.Entities = p.model.Entities
                       /\ (branch = "skip") <=> l.parts.before = Apostrophe ]_vars

\* a line  f(}) : T  inside the body of A was taken as a method, and the
\* attribute line after it went to A as well
C21_Witness ==
    /\ Len(trace) = 3
    /\ IsWritten(input[2], "brace")
    /\ ~input[2].parts.alone
    /\ trace[2].branch = "method"
    /\ trace[3].branch = "attribute"
    /\ p.currentClass # NilPtr
    /\ Len(EntityOf(<<"A">>).Attributes) = 1
    /\ Len(EntityOf(<<"A">>).Methods) = 1

(***************************************************************************)
(* C22  A line } read while no class body is open changes nothing: the     *)
(* model, the entities and the parser state are after it what they were    *)
(* before it, also when several such lines follow one another.             *)
(***************************************************************************)
C22_CloseAtTopLevelChangesNothing ==
    [][ (WholeLineStep /\ input[scanned + 1] = CloseLine
             /\ p.currentClass = NilPtr) =>
            /\ trace'[Len(trace')].branch = "close"
            /\ p' = p ]_vars

\* entity B, then } twice: the first ends the body of B, the second is read
\* with no body open, and B is still in the model
C22_Witness ==
    /\ Len(trace) = 3
    /\ trace[1].branch = "entity"
    /\ trace[2].branch = "close"
    /\ trace[3].branch = "close"
    /\ p.currentClass = NilPtr
    /\ DOMAIN p.model.Entities = {<<"B">>}

(***************************************************************************)
(* C23  Only class, entity and object start the header of an entity.  A    *)
(* line  word name,  word name {  or  word name{  with one of the three    *)
(* keywords as its word declares the entity of that name and opens its     *)
(* body; with any other word it is dropped: no entity is created and the   *)
(* parser is as before.  An attribute line after such a dropped line goes  *)
(* to the entity whose body was open before it, and is dropped when none   *)
(* was.                                                                    *)
(***************************************************************************)
C23_OnlyKeywordsStartHeader ==
    [][ WholeLineStep =>
            LET l      == input[scanned + 1]
                branch == trace'[Len(trace')].branch
            IN  /\ (IsWritten(l, "header") /\ l.parts.keyword) =>
                       /\ branch = "entity"
                       /\ p'.currentClass # NilPtr
                       /\ p'.heap[p'.currentClass].Name = l.parts.name
                       /\ p'.model.Entities[l.parts.name] = p'.currentClass
                /\ (IsWritten(l, "header") /\ ~l.parts.keyword) =>
                       /\ branch = "none"
                       /\ p' = p
                /\ (scanned >= 1 /\ l = AttributeLine
                        /\ IsWritten(input[scanned], "header")
                        /\ ~input[scanned].parts.keyword) =>
                       IF input[1] = ClassALine
                       THEN /\ branch = "attribute"
                            /\ DOMAIN p'.model.Entities = {<<"A">>}
                            /\ p'.currentClass = p'.model.Entities[<<"A">>]
                            /\ p'.heap[p'.currentClass].Attributes
                                   = <<AttributeOf(TrimSpace(Text(l)))>>
                       ELSE /\ branch = "none"
                            /\ p' = NewParser ]_vars

\* class A {, then a line such as  interface B {  that was dropped, then an
\* attribute line that went to A
C23_Witness ==
    /\ Len(trace) = 3
    /\ IsWritten(input[2], "header")
    /\ ~input[2].parts.keyword
    /\ trace[2].branch = "none"
    /\ trace[3].branch = "attribute"
    /\ DOMAIN p.model.Entities = {<<"A">>}
    /\ Len(EntityOf(<<"A">>).Attributes) = 1

(***************************************************************************)
(* C28  A line taken as a relationship or as a constraint leaves the       *)
(* parser state alone: the entity whose body was open is still the open    *)
(* one, no body is open when none was, and no entity changes.  An          *)
(* attribute line right after such a line is appended to the entity whose  *)
(* header opened the body before it.                                       *)
(***************************************************************************)
C28_RelationshipAndConstraintKeepState ==
    [][ Len(trace') = Len(trace) + 1 =>
            LET branch == trace'[Len(trace')].branch
            IN  /\ branch \in {"relationship", "constraint"} =>
                       /\ p'.currentClass = p.currentClass
                       /\ p'.heap = p.heap
                       /\ p'.model.Entities = p.model.Entities
                /\ (branch = "attribute" /\ Len(trace) >= 2
                        /\ trace[Len(trace)].branch
                               \in {"relationship", "constraint"}
                        /\ trace[Len(trace) - 1].branch = "entity") =>
                       LET cur == p.model.Entities[HeaderName(Len(trace) - 1)]
                       IN  /\ p.currentClass = cur
                           /\ p'.currentClass = cur
                           /\ p'.heap[cur].Attributes
                                  = Append(p.heap[cur].Attributes,
                                           AttributeOf(
                                               trace'[Len(trace')].line)) ]_vars

\* a header, a relationship inside its body, and an attribute that went to
\* the entity of the header
C28_Witness ==
    /\ Len(trace) = 3
    /\ trace[1].branch = "entity"
    /\ trace[2].branch = "relationship"
    /\ trace[3].branch = "attribute"
    /\ p.currentClass = p.model.Entities[HeaderName(1)]
    /\ Len(p.heap[p.currentClass].Attributes) = 1
    /\ Len(p.model.Relationships) = 1

(***************************************************************************)
(* C29  Whenever a class body is open, the open entity is the entity that  *)
(* the entities map holds under the open entity's own name: p.currentClass *)
(* and the map entry are the same pointer.  So what is appended through    *)
(* p.currentClass is in the model that Parse returns.                      *)
(***************************************************************************)
C29_OpenEntityIsTheStoredOne ==
    p.currentClass # NilPtr =>
        /\ p.currentClass \in 1..Len(p.heap)
        /\ p.heap[p.currentClass].Name \in DOMAIN p.model.Entities
        /\ p.model.Entities[p.heap[p.currentClass].Name] = p.currentClass

\* Parse returned the model with the body of the second header for a name
\* still open, and the member added through p.currentClass is in the entity
\* the map holds
C29_Witness ==
    /\ pc = "returned"
    /\ ret.model = "p.model"
    /\ Len(trace) = 3
    /\ trace[1].branch = "entity"
    /\ trace[2].branch = "entity"
    /\ HeaderName(1) = HeaderName(2)
    /\ trace[3].branch \in {"attribute", "method"}
    /\ p.currentClass = 2
    /\ p.model.Entities[HeaderName(2)] = 2
    /\ Len(EntityOf(HeaderName(2)).Attributes)
           + Len(EntityOf(HeaderName(2)).Methods) = 1

(***************************************************************************)
(* C30  The model only grows.  In every step the relationships and the     *)
(* constraints after the step begin with the relationships and the         *)
(* constraints before it, element for element, and every name the          *)
(* entities map held before the step it holds after it.                    *)
(***************************************************************************)
C30_ModelOnlyGrows ==
    [][ /\ Len(p'.model.Relationships) >= Len(p.model.Relationships)
        /\ SubSeq(p'.model.Relationships, 1, Len(p.model.Relationships))
               = p.model.Relationships
        /\ Len(p'.model.Constraints) >= Len(p.model.Constraints)
        /\ SubSeq(p'.model.Constraints, 1, Len(p.model.Constraints))
               = p.model.Constraints
        /\ DOMAIN p.model.Entities \subseteq DOMAIN p'.model.Entities ]_vars

\* a constraint, the header of an entity and a second constraint: the
\* model holds both constraints in that order, and the entity
C30_Witness ==
    /\ Len(trace) = 3
    /\ Len(p.model.Constraints) = 2
    /\ p.model.Constraints[1] # p.model.Constraints[2]
    /\ Cardinality(DOMAIN p.model.Entities) = 1
    /\ trace[1].branch = "constraint"
    /\ trace[3].branch = "constraint"

(***************************************************************************)
(* C27  Parse is one forward pass.  Parse runs without waiting for         *)
(* anything but its reader, so a step that can be taken is taken, and on   *)
(* a finite input it returns.  The scanner hands out the lines one by one  *)
(* in the order of the input, each once, and after a return without error  *)
(* every line has been handed out.  What the loop does with a line - the   *)
(* branch it takes, what it appends, which entity it declares, which body  *)
(* is open afterwards - is the same as what it does with that line in a    *)
(* parser that has nothing but the open entity's name: it does not depend  *)
(* on what the model holds.                                                *)
(***************************************************************************)
\* the scanner goes on to the next line: the step of ScanLine as the
\* scanner's position shows it
ScanAdvances ==
    /\ pc = "loop" /\ scanErr = NoErr
    /\ scanned < Len(input)
    /\ ~TooLong(input[scanned + 1])
    /\ scanned' = scanned + 1

\* Parse on a scheduler that lets it run: a call of Scan returns, and the
\* statement after the loop is executed.  (That the reader fails is up to
\* the reader: no fairness.)
FairSpec ==
    /\ Spec
    /\ WF_scanned(ScanAdvances)
    /\ WF_vars(ScanTooLong)
    /\ WF_vars(ScanEOF)
    /\ WF_vars(ScanAfterError)
    /\ WF_vars(Return)

\* the parser q with the content of its model forgotten: only whether a
\* body is open, and of which name, is kept
Stripped(q) ==
    IF q.currentClass = NilPtr THEN NewParser
    ELSE [heap  |-> NewEntity(<< >>, q.heap[q.currentClass].Name),
          model |-> [NewParser.model EXCEPT !.Entities =
                        MapPut(@, q.heap[q.currentClass].Name, 1)],
          currentClass |-> 1]

\* the part of sequence s after its first n elements
After(s, n) == SubSeq(s, n + 1, Len(s))

\* what an iteration that led from parser q to parser r.p did
Effect(q, r) ==
    [branch        |-> r.branch,
     relationships |-> After(r.p.model.Relationships,
                             Len(q.model.Relationships)),
     constraints   |-> After(r.p.model.Constraints, Len(q.model.Constraints)),
     declared      |-> IF Len(r.p.heap) > Len(q.heap)
                       THEN <<r.p.heap[Len(r.p.heap)].Name,
                              r.p.model.Entities[r.p.heap[Len(r.p.heap)].Name]
                                  = Len(r.p.heap)>>
                       ELSE << >>,
     open          |-> IF r.p.currentClass = NilPtr THEN << >>
                       ELSE <<r.p.heap[r.p.currentClass].Name>>,
     members       |-> IF q.currentClass = NilPtr THEN << >>
                       ELSE <<After(r.p.heap[q.currentClass].Attributes,
                                    Len(q.heap[q.currentClass].Attributes)),
                              After(r.p.heap[q.currentClass].Methods,
                                    Len(q.heap[q.currentClass].Methods))>>]

C27_SingleForwardPass ==
    /\ <>(pc = "returned")
    /\ [](scanned = Len(trace) /\ scanned <= Len(input))
    /\ []((pc = "returned" /\ ret.err = NoErr) => scanned = Len(input))
    /\ [][ /\ input' = input
           /\ scanned' \in {scanned, scanned + 1}
           /\ WholeLineStep =>
                  Effect(p, [p      |-> p',
                             branch |-> trace'[Len(trace')].branch])
                      = Bind(Stripped(p), LAMBDA q :
                            Effect(q, LoopBody(Text(input[scanned + 1]), q)))
       ]_vars

\* Parse returned after three lines whose third is a header for a name the
\* model already held when no body was open
C27_Witness ==
    /\ pc = "returned"
    /\ ret.err = NoErr
    /\ Len(trace) = 3
    /\ trace[1].branch = "entity"
    /\ trace[2].branch = "close"
    /\ trace[3].branch = "entity"
    /\ HeaderName(1) = HeaderName(3)
    /\ p.currentClass = 2

(***************************************************************************)
(* Two parsers.  Each Parser value has its own scanner, model and          *)
(* currentClass (lines 68-72); the entities of both live on the one heap   *)
(* of the process, and both use the package's expressions.  The variables  *)
(* hold a pair where Spec holds one value: input[i], scanned[i], pc[i],    *)
(* ret[i] and trace[i] belong to parser i, p.parsers[i] is its model and   *)
(* its currentClass, and p.heap is the heap.  The readers do not fail.     *)
(***************************************************************************)
\* the most lines an input of one of the two parsers has
MaxPairLines == 2

PairLines ==
    {ClassALine, EntityBLine, AttributeLine, MethodLine, CloseLine,
     RelationLine2, ConstraintLine1}

PairInputs == UNION {[1..n -> PairLines] : n \in 0..MaxPairLines}

\* the two parsers
Parsers == {1, 2}

\* NewParser, twice
PairInit ==
    /\ input \in [Parsers -> PairInputs]
    /\ scanned = [i \in Parsers |-> 0]
    /\ scanErr = [i \in Parsers |-> NoErr]
    /\ p = [heap    |-> NewParser.heap,
            parsers |-> [i \in Parsers |->
                            [model        |-> NewParser.model,
                             currentClass |-> NewParser.currentClass]]]
    /\ pc = [i \in Parsers |-> "loop"]
    /\ ret = [i \in Parsers |-> NotReturned]
    /\ failedAt = [i \in Parsers |-> 0]
    /\ trace = [i \in Parsers |-> << >>]
    /\ stdout = << >>
    /\ mbus = NoRun
    /\ writer = NoWriter

\* parser i as its methods see it: its own fields, and the heap
View(i) ==
    [heap         |-> p.heap,
     model        |-> p.parsers[i].model,
     currentClass |-> p.parsers[i].currentClass]

\* the store with a slip: currentClass is a variable of the package, which
\* every parser reads and writes
PairStore_SharedCurrentClass(i, q) ==
    [heap    |-> q.heap,
     parsers |-> [j \in Parsers |->
                     [model        |-> IF j = i THEN q.model
                                       ELSE p.parsers[j].model,
                      currentClass |-> q.currentClass]]]

\* the heap and the parsers after an iteration of parser i left it as q:
\* the fields of the other parser are not touched
PairStore(i, q) ==
    [heap    |-> q.heap,
     parsers |-> [p.parsers EXCEPT ![i] =
                     [model        |-> q.model,
                      currentClass |-> q.currentClass]]]

\* p.scanner.Scan() of parser i returns true, and the body runs
PairScanLine(i) ==
    /\ pc[i] = "loop"
    /\ scanned[i] < Len(input[i])
    /\ \E r \in {LoopBody(Text(input[i][scanned[i] + 1]), View(i))} :
           /\ p' = PairStore(i, r.p)
           /\ trace' = [trace EXCEPT ![i] =
                           Append(@, [branch |-> r.branch,
                                      line   |-> IF r.branch \in Recognised
                                                 THEN TrimSpace(Text(
                                                     input[i][scanned[i] + 1]))
                                                 ELSE << >>])]
    /\ scanned' = [scanned EXCEPT ![i] = @ + 1]
    /\ UNCHANGED <<input, scanErr, pc, ret, failedAt, stdout, mbus, writer>>

\* p.scanner.Scan() of parser i returns false: the end of its input
PairScanEOF(i) ==
    /\ pc[i] = "loop"
    /\ scanned[i] = Len(input[i])
    /\ pc' = [pc EXCEPT ![i] = "exit"]
    /\ UNCHANGED <<input, scanned, scanErr, p, ret, failedAt, trace, stdout,
                   mbus, writer>>

\* parser i returns
PairReturn(i) ==
    /\ pc[i] = "exit"
    /\ ret' = [ret EXCEPT ![i] =
                  IF scanErr[i] # NoErr
                  THEN [model |-> "nil", err |-> scanErr[i]]
                  ELSE [model |-> "p.model", err |-> NoErr]]
    /\ pc' = [pc EXCEPT ![i] = "returned"]
    /\ UNCHANGED <<input, scanned, scanErr, p, failedAt, trace, stdout,
                   mbus, writer>>

PairNext ==
    \E i \in Parsers :
        \/ PairScanLine(i)
        \/ PairScanEOF(i)
        \/ PairReturn(i)

PairSpec == PairInit /\ [][PairNext]_vars

\* what parser q holds, without the addresses: the entities by name, the
\* relationships, the constraints, the open entity and whether it is the
\* one the map holds under its name
Content(q) ==
    [Entities      |-> [n \in DOMAIN q.model.Entities |->
                           q.heap[q.model.Entities[n]]],
     Relationships |-> q.model.Relationships,
     Constraints   |-> q.model.Constraints,
     open          |-> IF q.currentClass = NilPtr THEN << >>
                       ELSE <<q.heap[q.currentClass],
                              /\ q.heap[q.currentClass].Name
                                     \in DOMAIN q.model.Entities
                              /\ q.model.Entities[q.heap[q.currentClass].Name]
                                     = q.currentClass>>]

(***************************************************************************)
(* C24  Parsers are independent.  However the line steps of two parsers    *)
(* are interleaved, each parser holds after any number of its lines the    *)
(* model and the open entity that Parse alone holds after these lines,     *)
(* and returns what Parse alone returns.                                   *)
(***************************************************************************)
C24_ParsersAreIndependent ==
    \A i \in Parsers :
        LET alone == ParseLines(SubSeq(input[i], 1, scanned[i]), NewParser)
        IN  /\ Content(View(i)) = Content(alone.p)
            /\ pc[i] = "returned" =>
                   /\ scanned[i] = Len(input[i])
                   /\ ret[i] = ReturnOf(alone)

\* both returned; the two inputs declare an entity of the same name with
\* different members: the heap holds the two entities, each with the
\* member of its own parser only
C24_Witness ==
    /\ pc = [i \in Parsers |-> "returned"]
    /\ input[1] = <<ClassALine, AttributeLine>>
    /\ input[2] = <<ClassALine, MethodLine>>
    /\ p.parsers[1].model.Entities[<<"A">>] = 1
    /\ p.parsers[2].model.Entities[<<"A">>] = 2
    /\ Len(p.heap[1].Attributes) = 1 /\ Len(p.heap[1].Methods) = 0
    /\ Len(p.heap[2].Attributes) = 0 /\ Len(p.heap[2].Methods) = 1

(***************************************************************************)
(* DebugPrint: the text it writes to the standard output, and the parse    *)
(* of such a text.                                                         *)
(***************************************************************************)
\* the most calls of DebugPrint on the model Parse returned
MaxPrints == 2

\* the strings of ss one after the other
RECURSIVE Concat(_)
Concat(ss) == IF ss = << >> THEN << >> ELSE Head(ss) \o Concat(Tail(ss))

NewLine == <<"\n">>

\* fmt.Printf("    attr %s : %s\n", a.Name, a.Type)
PrintAttribute(a) ==
    <<" ", " ", " ", " ", "a", "t", "t", "r", " ">>
    \o a.Name \o <<" ", ":", " ">> \o a.Type \o NewLine

\* fmt.Printf("    method %s() : %s\n", m.Name, m.ReturnType)
PrintMethod(m) ==
    <<" ", " ", " ", " ", "m", "e", "t", "h", "o", "d", " ">>
    \o m.Name \o <<"(", ")", " ", ":", " ">> \o m.ReturnType \o NewLine

\* fmt.Println(" -", e.Name) and the two loops over the members of e
PrintEntity(e) ==
    <<" ", "-">> \o <<" ">> \o e.Name \o NewLine
    \o Concat([i \in 1..Len(e.Attributes) |-> PrintAttribute(e.Attributes[i])])
    \o Concat([i \in 1..Len(e.Methods) |-> PrintMethod(e.Methods[i])])

\* the line of a relationship with a slip: the line is written as a
\* diagram writes it, without the bullet
PrintRelationship_AsDiagramLine(r) ==
    r.From \o <<" ", "\"">> \o r.FromMultiplicity
    \o <<"\"", " ">> \o r.Type \o <<" ", "\"">> \o r.ToMultiplicity
    \o <<"\"", " ">> \o r.To \o <<" ", ":", " ">> \o r.Label \o NewLine

\* fmt.Printf(" - %s \"%s\" %s \"%s\" %s : %s\n", ...)
PrintRelationship(r) ==
    <<" ", "-", " ">> \o r.From \o <<" ", "\"">> \o r.FromMultiplicity
    \o <<"\"", " ">> \o r.Type \o <<" ", "\"">> \o r.ToMultiplicity
    \o <<"\"", " ">> \o r.To \o <<" ", ":", " ">> \o r.Label \o NewLine

\* fmt.Printf(" - %s on %s : %s\n", c.Kind, c.Target, c.Expr)
PrintConstraint(c) ==
    <<" ", "-", " ">> \o c.Kind \o <<" ", "o", "n", " ">> \o c.Target
    \o <<" ", ":", " ">> \o c.Expr \o NewLine

\* The orders in which `range m.Entities` may visit the keys of the map:
\* the language leaves the order open and the runtime varies it from one
\* loop to the next, so every order is possible.
RangeOrders(m) ==
    LET n == Cardinality(DOMAIN m)
    IN  {o \in [1..n -> DOMAIN m] : \A i, j \in 1..n : o[i] = o[j] => i = j}

\* what DebugPrint writes when the loop over the map visits the keys in
\* the given order
DebugPrintText(model, heap, order) ==
    <<"E", "n", "t", "i", "t", "i", "e", "s", ":">> \o NewLine
    \o Concat([i \in 1..Len(order) |->
                  PrintEntity(heap[model.Entities[order[i]]])])
    \o <<"R", "e", "l", "a", "t", "i", "o", "n", "s", "h", "i", "p", "s", ":">>
    \o NewLine
    \o Concat([i \in 1..Len(model.Relationships) |->
                  PrintRelationship(model.Relationships[i])])
    \o <<"C", "o", "n", "s", "t", "r", "a", "i", "n", "t", "s", ":">>
    \o NewLine
    \o Concat([i \in 1..Len(model.Constraints) |->
                  PrintConstraint(model.Constraints[i])])

\* a call of DebugPrint on the model that Parse returned
DebugPrint ==
    /\ pc = "returned"
    /\ ret.model = "p.model"
    /\ Len(stdout) < MaxPrints
    /\ \E order \in RangeOrders(p.model.Entities) :
           stdout' = Append(stdout, DebugPrintText(p.model, p.heap, order))
    /\ UNCHANGED <<input, scanned, scanErr, p, pc, ret, failedAt, trace,
                   mbus, writer>>

\* Parse, and calls of DebugPrint on its result
PrintNext ==
    \/ Next
    \/ DebugPrint

PrintSpec == Init /\ [][PrintNext]_vars

RECURSIVE ScanLines(_)
\* The lines a scanner with the default split function hands out for a
\* text: the text is cut at each line feed, a carriage return before the
\* line feed is dropped, and a last line without a line feed counts when
\* it is not empty.
ScanLines(text) ==
    IF text = << >> THEN << >>
    ELSE LET nl   == Span(text, 1, Char \ {"\n"})
             raw  == SubSeq(text, 1, nl - 1)
             line == IF raw # << >> /\ raw[Len(raw)] = "\r"
                     THEN SubSeq(raw, 1, Len(raw) - 1) ELSE raw
         IN  <<[pad |-> 0, text |-> line]>>
             \o ScanLines(SubSeq(text, nl + 1, Len(text)))

\* the model that parser q holds, without the addresses: the entities by
\* name, the relationships and the constraints
ModelContent(q) ==
    [Entities      |-> [n \in DOMAIN q.model.Entities |->
                           q.heap[q.model.Entities[n]]],
     Relationships |-> q.model.Relationships,
     Constraints   |-> q.model.Constraints]

(***************************************************************************)
(* C25  As claimed: two renderings of the same model are the same text,    *)
(* including the order in which the entities are listed.  The model does   *)
(* not change after Parse has returned, so all the texts in stdout render  *)
(* the same model.                                                         *)
(***************************************************************************)
C25_RenderingIsDeterministic ==
    \A i, j \in 1..Len(stdout) : stdout[i] = stdout[j]

(***************************************************************************)
(* C26  Dumping a model and parsing the dump is no round trip.  No line    *)
(* that DebugPrint writes is a line that Parse recognises (a heading, or   *)
(* a line that starts with a bullet or with attr or method outside any     *)
(* class body), so Parse reads every dump without error as the empty       *)
(* model: for every model that holds an entity, a relationship or a        *)
(* constraint the parse of its dump differs from the model.                *)
(***************************************************************************)
C26_DumpIsNotARoundTrip ==
    \A k \in 1..Len(stdout) :
        LET again == ParseLines(ScanLines(stdout[k]), NewParser)
        IN  /\ again.err = NoErr
            /\ ModelContent(p) # ModelContent(NewParser) =>
                   ModelContent(again.p) # ModelContent(p)

\* the dump of a model with an entity that has an attribute and with a
\* relationship that has both multiplicities and a label
C26_Witness ==
    /\ Len(stdout) >= 1
    /\ input = <<ClassALine, AttributeLine, RelationLine1>>
    /\ Len(EntityOf(<<"A">>).Attributes) = 1
    /\ Len(p.model.Relationships) = 1
    /\ ModelContent(ParseLines(ScanLines(stdout[1]), NewParser).p)
           = ModelContent(NewParser)

(***************************************************************************)
(* Parse called again on a parser whose Parse has returned without error.  *)
(* The scanner has then seen the end of its input: it keeps io.EOF as its  *)
(* state, Scan returns false without reading, and Err reports nil.  The    *)
(* second call is at "loop2", "exit2" and "returned2" where the first is   *)
(* at "loop", "exit" and "returned".                                       *)
(***************************************************************************)
\* the call with a slip: the reader is read from its start again
ParseAgain_RewindsReader ==
    /\ pc \in {"returned", "returned2"}
    /\ ret.err = NoErr
    /\ pc' = "loop"
    /\ scanned' = 0
    /\ trace' = << >>
    /\ UNCHANGED <<input, scanErr, p, ret, failedAt, stdout, mbus, writer>>

\* p.Parse() once more, after a return without error
ParseAgain ==
    /\ pc \in {"returned", "returned2"}
    /\ ret.err = NoErr
    /\ pc' = "loop2"
    /\ UNCHANGED <<input, scanned, scanErr, p, ret, failedAt, trace, stdout,
                   mbus, writer>>

\* p.scanner.Scan() on the scanner that is at the end of its input
ScanAtEOF ==
    /\ pc = "loop2"
    /\ pc' = "exit2"
    /\ UNCHANGED <<input, scanned, scanErr, p, ret, failedAt, trace, stdout,
                   mbus, writer>>

\* lines 128-132 in the second call
ReturnAgain ==
    /\ pc = "exit2"
    /\ ret' = IF scanErr # NoErr
              THEN [model |-> "nil", err |-> scanErr]
              ELSE [model |-> "p.model", err |-> NoErr]
    /\ pc' = "returned2"
    /\ UNCHANGED <<input, scanned, scanErr, p, failedAt, trace, stdout,
                   mbus, writer>>

AgainNext ==
    \/ Next
    \/ ParseAgain
    \/ ScanAtEOF
    \/ ReturnAgain

AgainSpec == Init /\ [][AgainNext]_vars

(***************************************************************************)
(* C31  Once Parse has returned without error the parser changes the       *)
(* model no more: in every later step the parser, its model and the        *)
(* entities are what they were, and a further call of Parse returns what   *)
(* the first returned - the same model and a nil error.                    *)
(***************************************************************************)
C31_ParseAgainReturnsSameModel ==
    [][ ret.err = NoErr =>
            /\ p' = p
            /\ ret' = ret
            /\ ret'.model = "p.model" ]_vars

\* the second call has returned the model of a header, a member and a
\* relationship, with the body of the header still open
C31_Witness ==
    /\ pc = "returned2"
    /\ ret = [model |-> "p.model", err |-> NoErr]
    /\ Len(trace) = 3
    /\ trace[1].branch = "entity"
    /\ trace[2].branch \in {"attribute", "method"}
    /\ trace[3].branch = "relationship"
    /\ p.currentClass # NilPtr

(***************************************************************************)
(* The programs beside the parser leave the parser alone.                  *)
(***************************************************************************)
parserVars ==
    <<input, scanned, scanErr, p, pc, ret, failedAt, trace, stdout>>

\* no parser runs
NoParser ==
    /\ input = << >>
    /\ scanned = 0
    /\ scanErr = NoErr
    /\ p = NewParser
    /\ pc = "-"
    /\ ret = NotReturned
    /\ failedAt = 0
    /\ trace = << >>
    /\ stdout = << >>

(***************************************************************************)
(* The LaTeX writer for CDM models: RenderElement on the three versions    *)
(* of a model element, the current, the updated and the considered one.    *)
(***************************************************************************)
\* "{\\color{green} %s}"
toAdd ==
    <<"{", "\\", "c", "o", "l", "o", "r", "{", "g", "r", "e", "e", "n",
      "}", " ", "%", "s", "}">>

\* "{\\color{red} \\sout{\\sout{%s}}}"
toDelete ==
    <<"{", "\\", "c", "o", "l", "o", "r", "{", "r", "e", "d", "}", " ",
      "\\", "s", "o", "u", "t", "{", "\\", "s", "o", "u", "t", "{", "%",
      "s", "}", "}", "}">>

\* "{\\color{lime} %s}"
considerAdd ==
    <<"{", "\\", "c", "o", "l", "o", "r", "{", "l", "i", "m", "e", "}",
      " ", "%", "s", "}">>

\* "{\\color{orange} \\sout{\\sout{%s}}}"
considerDelete ==
    <<"{", "\\", "c", "o", "l", "o", "r", "{", "o", "r", "a", "n", "g",
      "e", "}", " ", "\\", "s", "o", "u", "t", "{", "\\", "s", "o", "u",
      "t", "{", "%", "s", "}", "}", "}">>

\* fmt.Sprintf(format, value) for a format with one verb, %s: the format
\* with the value in place of the verb
Sprintf(format, value) ==
    LET i == CHOOSE i \in 1..(Len(format) - 1) :
                 format[i] = "%" /\ format[i + 1] = "s"
    IN  SubSeq(format, 1, i - 1) \o value \o SubSeq(format, i + 2, Len(format))

\* ApplyFormatting with a slip: the test for the empty value is missing
ApplyFormatting_FormatsEmpty(format, value) == Sprintf(format, value)

ApplyFormatting(format, value) ==
    IF value = Empty THEN Empty ELSE Sprintf(format, value)

\* the body of RenderElement on the values the access function s yields
\* for the three models
RenderElement(current, updated, considered) ==
    \* Deciding on the formatting to apply
    IF considered = updated
    THEN IF updated = current
         THEN current
         ELSE ApplyFormatting(toDelete, current)
                  \o ApplyFormatting(toAdd, updated)
    ELSE IF updated = current
         THEN ApplyFormatting(considerDelete, updated)
                  \o ApplyFormatting(considerAdd, considered)
         ELSE ApplyFormatting(toDelete, current)
                  \o ApplyFormatting(considerDelete, updated)
                  \o ApplyFormatting(considerAdd, considered)

\* values of a model element: absent, plain names, and a name that looks
\* like a verb
Elements ==
    {Empty, <<"a">>, <<"b">>, <<"a", "b">>, <<"%", "s">>}

RenderInit ==
    /\ NoParser
    /\ mbus = NoRun
    /\ writer \in [CurrentModel : Elements, UpdatedModel : Elements,
                   ConsideredModel : Elements, rendered : {"-"}]

\* a call of l.RenderElement(s)
Render ==
    /\ writer.rendered = "-"
    /\ writer' = [writer EXCEPT !.rendered =
                     RenderElement(writer.CurrentModel, writer.UpdatedModel,
                                   writer.ConsideredModel)]
    /\ UNCHANGED <<parserVars, mbus>>

RenderNext == Render

RenderSpec == RenderInit /\ [][RenderNext]_vars

\* value v inside the markup that opens with the given command and closes
\* with as many braces as it opened, and nothing for the empty value
Marked(open, close, v) == IF v = Empty THEN Empty ELSE open \o v \o close

Deleted(v) ==
    Marked(<<"{", "\\", "c", "o", "l", "o", "r", "{", "r", "e", "d", "}",
             " ", "\\", "s", "o", "u", "t", "{", "\\", "s", "o", "u", "t",
             "{">>,
           <<"}", "}", "}">>, v)

Added(v) ==
    Marked(<<"{", "\\", "c", "o", "l", "o", "r", "{", "g", "r", "e", "e",
             "n", "}", " ">>,
           <<"}">>, v)

ConsiderDeleted(v) ==
    Marked(<<"{", "\\", "c", "o", "l", "o", "r", "{", "o", "r", "a", "n",
             "g", "e", "}", " ", "\\", "s", "o", "u", "t", "{", "\\", "s",
             "o", "u", "t", "{">>,
           <<"}", "}", "}">>, v)

ConsiderAdded(v) ==
    Marked(<<"{", "\\", "c", "o", "l", "o", "r", "{", "l", "i", "m", "e",
             "}", " ">>,
           <<"}">>, v)

\* s holds a brace or a backslash
HasMarkup(s) == \E k \in 1..Len(s) : s[k] \in {"{", "}", "\\"}

(***************************************************************************)
(* C38  RenderElement returns the current value as it is exactly when the  *)
(* current, the updated and the considered value are equal.  Otherwise it  *)
(* returns, in this order: the current value marked as deleted when it     *)
(* differs from the updated value; then the updated value marked as added  *)
(* when the considered value equals it, or the updated value marked as     *)
(* considered for deletion followed by the considered value marked as      *)
(* considered for addition when it does not.  An empty value contributes   *)
(* nothing, no markup either.                                              *)
(***************************************************************************)
C38_RenderElement ==
    writer.rendered # "-" =>
        LET current    == writer.CurrentModel
            updated    == writer.UpdatedModel
            considered == writer.ConsideredModel
            same       == current = updated /\ updated = considered
        IN  /\ same => writer.rendered = current
            /\ ~same =>
                   /\ writer.rendered =
                          (IF current # updated THEN Deleted(current)
                           ELSE Empty)
                          \o (IF considered = updated THEN Added(updated)
                              ELSE ConsiderDeleted(updated)
                                       \o ConsiderAdded(considered))
                   /\ HasMarkup(writer.rendered)
            /\ (current = Empty /\ updated = Empty) =>
                   writer.rendered = ConsiderAdded(considered)
            /\ (updated = Empty /\ considered = Empty) =>
                   writer.rendered = Deleted(current)

\* the element was deleted by the update, and nothing is considered in
\* its place: the current value is marked as deleted and that is all
C38_Witness ==
    /\ writer.rendered # "-"
    /\ writer.CurrentModel = <<"a", "b">>
    /\ writer.UpdatedModel = Empty
    /\ writer.ConsideredModel = Empty
    /\ writer.rendered = Deleted(<<"a", "b">>)


(***************************************************************************)
(* The command-line applications of the modelling bus: mbus_post, mbus_get *)
(* and mbus_delete.  One run of one application is held in the variable    *)
(* mbus: its flags, the position of main, the errors it has reported, the  *)
(* operations it has issued on the bus, the files it has read and written, *)
(* and, for a waiting mbus_get, the listeners it has registered, the       *)
(* postings it has received and the flag "finished" its callbacks set.     *)
(* The connector and the reporter belong to the bus library; they appear   *)
(* here as what the applications ask of them: an operation issued on the   *)
(* bus is appended to mbus.bus, a reported error to mbus.reported.         *)
(***************************************************************************)

\* The kinds of posting (src/mbus_post/main.go).
rawArtefactPosting == "raw_artefact"
jsonArtefactPosting == "json_artefact"
rawObservationPosting == "raw_observation"
jsonObservationPosting == "json_observation"
streamedObservationPosting == "streamed_observation"
coordinationPosting == "coordination"

\* The kinds of retrieval (src/mbus_get/main.go, and the get application
\* kept in src/mbus_delete/main.go).
rawArtefactRetrieval == "raw_artefact"
jsonArtefactRetrieval == "json_artefact"
rawObservationRetrieval == "raw_observation"
jsonObservationRetrieval == "json_observation"
streamedObservationRetrieval == "streamed_observation"
coordinationRetrieval == "coordination"
timestampExtension == ".timestamp"
\* generics.JSONExtension of the bus library.
JSONExtension == ".json"

\* The kinds of deletion (src/mbus_delete/main.go).
rawArtefactDeletion == "raw_artefact"
jsonArtefactDeletion == "json_artefact"
rawObservationDeletion == "raw_observation"
jsonObservationDeletion == "json_observation"
streamedObservationDeletion == "streamed_observation"
coordinationDeletion == "coordination"
environmentDeletion == "environment"

\* The keys of the three handler maps.
postingHandlers ==
    {rawArtefactPosting, jsonArtefactPosting, rawObservationPosting,
     jsonObservationPosting, streamedObservationPosting, coordinationPosting}
retrievalHandlers ==
    {rawArtefactRetrieval, jsonArtefactRetrieval, rawObservationRetrieval,
     jsonObservationRetrieval, streamedObservationRetrieval,
     coordinationRetrieval}
deletionHandlers ==
    {rawArtefactDeletion, jsonArtefactDeletion, rawObservationDeletion,
     jsonObservationDeletion, streamedObservationDeletion,
     coordinationDeletion, environmentDeletion}

\* A kind no application registers.
UnknownKind == "model"

\* The flags of the applications; a flag an application does not declare,
\* or that is not given on the command line, has its default ("" or false).
NoFlags ==
    [kind |-> "", file |-> "", json |-> "", json_version |-> "",
     artefact_id |-> "", observation_id |-> "", coordination_topic |-> "",
     environment |-> "", agent_id |-> "", file_name |-> "",
     wait |-> FALSE, wait_mode |-> ""]

\* The content of the file the -file flag of mbus_post names.
FileContent == "[]"

\* The run of an application that has not started main yet.
NewRun(program, flag, readable, writable) ==
    [program |-> program, flag |-> flag, readable |-> readable,
     writable |-> writable, pc |-> "main", handler |-> "-",
     reported |-> << >>, bus |-> << >>, read |-> << >>, files |-> << >>,
     finished |-> FALSE, listeners |-> << >>, received |-> << >>]

\* Reporter.Error, Reporter.ReportError, and the report the reporter makes
\* in MaybeReportEmptyFlagError and in MaybeReportError.
Report(r, message) == [r EXCEPT !.reported = Append(@, message)]

\* An operation of the connector.
Operation(r, op, args) ==
    [r EXCEPT !.bus = Append(@, [op |-> op, args |-> args])]

\* main, and with it the program, returns.
Returns(r) == [r EXCEPT !.pc = "done"]

\* MaybeReportEmptyFlagError found the flag empty: the error is reported
\* and the caller returns.
ReturnsWith(r, message) == Returns(Report(r, message))

(***************************************************************************)
(* mbus_delete: the deletion handlers and main.                            *)
(***************************************************************************)
handleRawArtefactDeletion(r) ==
    IF r.flag.artefact_id = ""
    THEN ReturnsWith(r, "No artefact ID specified for artefact deletion.")
    ELSE Returns(Operation(r, "DeleteRawArtefact", <<r.flag.artefact_id>>))

\* handleJSONArtefactDeletion without its second check.
handleJSONArtefactDeletion_ChecksVersionOnly(r) ==
    IF r.flag.json_version = ""
    THEN ReturnsWith(r, "No JSON version specified for JSON artefact deletion.")
    ELSE Returns(Operation(r, "DeleteJSONArtefact", <<r.flag.artefact_id>>))

handleJSONArtefactDeletion(r) ==
    IF r.flag.json_version = ""
    THEN ReturnsWith(r, "No JSON version specified for JSON artefact deletion.")
    ELSE IF r.flag.artefact_id = ""
    THEN ReturnsWith(r, "No artefact ID specified for artefact deletion.")
    ELSE Returns(Operation(r, "DeleteJSONArtefact", <<r.flag.artefact_id>>))

handleRawObservationDeletion(r) ==
    IF r.flag.observation_id = ""
    THEN ReturnsWith(r, "No observation ID specified.")
    ELSE Returns(Operation(r, "DeleteRawObservation",
                           <<r.flag.observation_id>>))

handleJSONObservationDeletion(r) ==
    IF r.flag.observation_id = ""
    THEN ReturnsWith(r, "No observation ID specified.")
    ELSE Returns(Operation(r, "DeleteJSONObservation",
                           <<r.flag.observation_id>>))

handleStreamedObservationDeletion(r) ==
    IF r.flag.observation_id = ""
    THEN ReturnsWith(r, "No observation ID specified.")
    ELSE Returns(Operation(r, "DeleteStreamedObservation",
                           <<r.flag.observation_id>>))

handleCoordinationDeletion(r) ==
    IF r.flag.coordination_topic = ""
    THEN ReturnsWith(r, "No coordination topic specified.")
    ELSE Returns(Operation(r, "DeleteCoordination",
                           <<r.flag.coordination_topic>>))

handleEnvironmentDeletion(r) ==
    IF r.flag.environment = ""
    THEN ReturnsWith(r, "No environment specified.")
    ELSE Returns(Operation(r, "DeleteEnvironment", <<r.flag.environment>>))

\* The call of deletionHandlers[kind].
deletionHandler(r) ==
    CASE r.handler = rawArtefactDeletion -> handleRawArtefactDeletion(r)
      [] r.handler = jsonArtefactDeletion -> handleJSONArtefactDeletion(r)
      [] r.handler = rawObservationDeletion -> handleRawObservationDeletion(r)
      [] r.handler = jsonObservationDeletion ->
            handleJSONObservationDeletion(r)
      [] r.handler = streamedObservationDeletion ->
            handleStreamedObservationDeletion(r)
      [] r.handler = coordinationDeletion -> handleCoordinationDeletion(r)
      [] r.handler = environmentDeletion -> handleEnvironmentDeletion(r)
      [] OTHER -> Returns(r)

\* main up to the call of the handler: the kind must be given and must be
\* a key of the handler map.
mbus_delete_main(r) ==
    IF r.flag.kind = ""
    THEN ReturnsWith(r, "No deletion kind specified.")
    ELSE IF r.flag.kind \notin deletionHandlers
    THEN ReturnsWith(r, "Unknown deletion kind specified: %s.")
    ELSE [r EXCEPT !.pc = "handler", !.handler = r.flag.kind]

(***************************************************************************)
(* mbus_post: the payload, the posting handlers and main.                  *)
(***************************************************************************)

\* os.ReadFile of the file the -file flag names: the read is recorded, and
\* it fails when the file cannot be read.
ReadFile(r) == [r EXCEPT !.read = Append(@, r.flag.file)]

\* getJSONPayload reading the file whenever -file is given.
getJSONPayload_PrefersFile(r) ==
    IF r.flag.file # ""
    THEN IF r.readable
         THEN [run |-> ReadFile(r), payload |-> FileContent, ok |-> TRUE]
         ELSE [run |-> Report(ReadFile(r),
                              "Error reading file for JSON artefact posting:"),
               payload |-> "", ok |-> FALSE]
    ELSE [run |-> r, payload |-> r.flag.json, ok |-> TRUE]

\* getJSONPayload: the run after the call, the payload and the ok result.
getJSONPayload(r) ==
    IF r.flag.json = "" /\ r.flag.file # ""
    THEN IF r.readable
         THEN [run |-> ReadFile(r), payload |-> FileContent, ok |-> TRUE]
         ELSE [run |-> Report(ReadFile(r),
                              "Error reading file for JSON artefact posting:"),
               payload |-> "", ok |-> FALSE]
    ELSE [run |-> r, payload |-> r.flag.json, ok |-> TRUE]

handleRawArtefactPosting(r) ==
    IF r.flag.file = ""
    THEN ReturnsWith(r, "No file specified for raw artefact posting.")
    ELSE IF r.flag.artefact_id = ""
    THEN ReturnsWith(r, "No artefact ID specified for artefact posting.")
    ELSE Returns(Operation(r, "PostRawArtefactState", <<r.flag.file>>))

handleJSONArtefactPosting(r) ==
    IF r.flag.json_version = ""
    THEN ReturnsWith(r, "No JSON version specified for JSON artefact posting.")
    ELSE IF r.flag.artefact_id = ""
    THEN ReturnsWith(r, "No artefact ID specified for artefact posting.")
    ELSE Bind(getJSONPayload(r), LAMBDA got :
            IF ~got.ok
            THEN Returns(got.run)
            ELSE Returns(Operation(got.run, "PostJSONArtefactState",
                                   <<got.payload, got.ok>>)))

handleRawObservationPosting(r) ==
    IF r.flag.file = ""
    THEN ReturnsWith(r, "No file specified for raw observation posting.")
    ELSE IF r.flag.observation_id = ""
    THEN ReturnsWith(r, "No observation ID specified.")
    ELSE Returns(Operation(r, "PostRawObservation",
                           <<r.flag.observation_id, r.flag.file>>))

handleJSONObservationPosting(r) ==
    IF r.flag.observation_id = ""
    THEN ReturnsWith(r, "No observation ID specified.")
    ELSE Bind(getJSONPayload(r), LAMBDA got :
            IF ~got.ok
            THEN Returns(got.run)
            ELSE Returns(Operation(got.run, "PostJSONObservation",
                                   <<r.flag.observation_id, got.payload>>)))

handleStreamedObservationPosting(r) ==
    IF r.flag.observation_id = ""
    THEN ReturnsWith(r, "No observation ID specified.")
    ELSE Bind(getJSONPayload(r), LAMBDA got :
            IF ~got.ok
            THEN Returns(got.run)
            ELSE Returns(Operation(got.run, "PostStreamedObservation",
                                   <<r.flag.observation_id, got.payload>>)))

handleCoordinationPosting(r) ==
    IF r.flag.coordination_topic = ""
    THEN ReturnsWith(r, "No coordination topic specified.")
    ELSE Bind(getJSONPayload(r), LAMBDA got :
            IF ~got.ok
            THEN Returns(got.run)
            ELSE Returns(Operation(got.run, "PostCoordination",
                                   <<r.flag.coordination_topic,
                                     got.payload>>)))

\* The call of postingHandlers[kind].
postingHandler(r) ==
    CASE r.handler = rawArtefactPosting -> handleRawArtefactPosting(r)
      [] r.handler = jsonArtefactPosting -> handleJSONArtefactPosting(r)
      [] r.handler = rawObservationPosting -> handleRawObservationPosting(r)
      [] r.handler = jsonObservationPosting -> handleJSONObservationPosting(r)
      [] r.handler = streamedObservationPosting ->
            handleStreamedObservationPosting(r)
      [] r.handler = coordinationPosting -> handleCoordinationPosting(r)
      [] OTHER -> Returns(r)

\* main of mbus_post without the check of the handler it has looked up.
mbus_post_main_CallsWhateverItFound(r) ==
    IF r.flag.kind = ""
    THEN ReturnsWith(r, "No posting kind specified.")
    ELSE [r EXCEPT !.pc = "handler", !.handler = r.flag.kind]

mbus_post_main(r) ==
    IF r.flag.kind = ""
    THEN ReturnsWith(r, "No posting kind specified.")
    ELSE IF r.flag.kind \notin postingHandlers
    THEN ReturnsWith(r, "Unknown posting kind specified: %s.")
    ELSE [r EXCEPT !.pc = "handler", !.handler = r.flag.kind]

(***************************************************************************)
(* mbus_get: writing the retrieved files, the immediate and the deferred   *)
(* retrieval, the retrieval handlers and main.  File paths are relative to *)
(* the work folder.                                                        *)
(***************************************************************************)

\* os.WriteFile: the file is written, or the error is reported when the
\* work folder cannot be written.
WriteFile(r, filePath, message) ==
    IF r.writable
    THEN [r EXCEPT !.files = Append(@, filePath)]
    ELSE Report(r, message)

writeTimestampToFile(r, filePath) ==
    WriteFile(r, filePath \o timestampExtension,
              "Error writing to timestamp file:")

\* The name of the file SaveJSONToFile writes for a kind.
FileBaseName(r, kind) ==
    IF kind # ""
    THEN kind \o "_" \o r.flag.file_name \o JSONExtension
    ELSE r.flag.file_name \o JSONExtension

SaveJSONToFile(r, kind) ==
    IF r.writable
    THEN writeTimestampToFile(
             WriteFile(r, FileBaseName(r, kind), "Error writing to json file:"),
             FileBaseName(r, kind))
    ELSE WriteFile(r, FileBaseName(r, kind), "Error writing to json file:")

\* SaveJSONToFile for each kind of a sequence, in order.
RECURSIVE SaveAll(_, _)
SaveAll(r, kinds) ==
    IF kinds = << >> THEN r
    ELSE SaveAll(SaveJSONToFile(r, Head(kinds)), Tail(kinds))

\* A listener callback: the kinds it saves with SaveJSONToFile, whether it
\* writes the timestamp of the raw artefact file, and whether it sets
\* *finished.  The empty callback is func() {}.
Callback(saves, stamp, finishes) ==
    [saves |-> saves, stamp |-> stamp, finishes |-> finishes]
EmptyCallback == Callback(<< >>, FALSE, FALSE)

\* The postings a listener can be registered for.
Postings == {"raw_state", "state", "update", "considering"}

\* ListenFor...Postings of the artefact connector: the listener is
\* registered on the bus with its callback.
ListenFor(r, op, posting, callback) ==
    [Operation(r, op, <<r.flag.agent_id, r.flag.artefact_id>>)
        EXCEPT !.listeners = (posting :> callback) @@ @]

\* The three ListenForJSONArtefact...Postings calls of one wait mode.
ListenForJSONArtefact(r, onState, onUpdate, onConsidering) ==
    ListenFor(
        ListenFor(
            ListenFor(r, "ListenForJSONArtefactStatePostings",
                      "state", onState),
            "ListenForJSONArtefactUpdatePostings", "update", onUpdate),
        "ListenForJSONArtefactConsideringPostings", "considering",
        onConsidering)

\* A callback of a listener runs.
RunCallback(r, callback) ==
    Bind(SaveAll(r, callback.saves), LAMBDA saved :
        Bind(IF callback.stamp
             THEN writeTimestampToFile(saved, r.flag.file_name)
             ELSE saved,
             LAMBDA stamped :
                [stamped EXCEPT !.finished = @ \/ callback.finishes]))

\* deferredOrImmediate returning as soon as the listeners are registered.
deferredOrImmediate_DoesNotWait(r, deferred, immediate) ==
    IF r.flag.wait
    THEN Returns([deferred EXCEPT !.finished = FALSE])
    ELSE Returns(immediate)

\* deferredOrImmediate: with -wait the deferred handler has registered its
\* listeners and main waits in the loop "for !finished"; without it the
\* immediate handler has run and main returns.  The two arguments are the
\* run after the deferred and after the immediate handler.
deferredOrImmediate(r, deferred, immediate) ==
    IF r.flag.wait
    THEN [deferred EXCEPT !.finished = FALSE, !.pc = "waiting"]
    ELSE Returns(immediate)

handleRawArtefactRetrieval(r) ==
    IF r.flag.artefact_id = ""
    THEN ReturnsWith(r, "No artefact ID specified for artefact retrieval.")
    ELSE IF r.flag.agent_id = ""
    THEN ReturnsWith(r, "No agent ID specified.")
    ELSE deferredOrImmediate(r,
            ListenFor(r, "ListenForRawArtefactStatePostings", "raw_state",
                      Callback(<< >>, TRUE, TRUE)),
            writeTimestampToFile(
                Operation(r, "GetRawArtefact",
                          <<r.flag.agent_id, r.flag.artefact_id,
                            r.flag.file_name>>),
                r.flag.file_name))

\* The listeners of the last branch for every wait mode.
JSONArtefactListeners_AnyPostingEndsWait(r) ==
    ListenForJSONArtefact(r,
        Callback(<<"state", "update", "considered">>, FALSE, TRUE),
        Callback(<<"state", "update", "considered">>, FALSE, TRUE),
        Callback(<<"state", "update", "considered">>, FALSE, TRUE))

\* The listeners of handleJSONArtefactRetrieval, by wait mode.
JSONArtefactListeners(r) ==
    CASE r.flag.wait_mode = "state" ->
            ListenForJSONArtefact(r, Callback(<<"state">>, FALSE, TRUE),
                                  EmptyCallback, EmptyCallback)
      [] r.flag.wait_mode = "update" ->
            ListenForJSONArtefact(r, EmptyCallback,
                                  Callback(<<"update">>, FALSE, TRUE),
                                  EmptyCallback)
      [] r.flag.wait_mode = "considering" ->
            ListenForJSONArtefact(r, EmptyCallback, EmptyCallback,
                                  Callback(<<"considered">>, FALSE, TRUE))
      [] OTHER ->
            ListenForJSONArtefact(r,
                Callback(<<"state", "update", "considered">>, FALSE, TRUE),
                Callback(<<"state", "update", "considered">>, FALSE, TRUE),
                Callback(<<"state", "update", "considered">>, FALSE, TRUE))

\* The three Get operations and the three saves of the immediate handler.
JSONArtefactRetrieved(r) ==
    SaveAll(
        Operation(
            Operation(
                Operation(r, "GetJSONArtefactState",
                          <<r.flag.agent_id, r.flag.artefact_id>>),
                "GetJSONArtefactUpdate",
                <<r.flag.agent_id, r.flag.artefact_id>>),
            "GetJSONArtefactConsidering",
            <<r.flag.agent_id, r.flag.artefact_id>>),
        <<"state", "update", "considered">>)

handleJSONArtefactRetrieval(r) ==
    IF r.flag.json_version = ""
    THEN ReturnsWith(r,
            "No JSON version specified for JSON artefact retrieval.")
    ELSE IF r.flag.agent_id = ""
    THEN ReturnsWith(r, "No agent ID specified.")
    ELSE IF r.flag.artefact_id = ""
    THEN ReturnsWith(r, "No artefact ID specified for artefact retrieval.")
    ELSE deferredOrImmediate(r, JSONArtefactListeners(r),
                             JSONArtefactRetrieved(r))

handleRawObservationRetrieval(r) ==
    IF r.flag.observation_id = ""
    THEN ReturnsWith(r, "No observation ID specified.")
    ELSE IF r.flag.agent_id = ""
    THEN ReturnsWith(r, "No agent ID specified.")
    ELSE Returns(writeTimestampToFile(
            Operation(r, "GetRawObservation",
                      <<r.flag.agent_id, r.flag.observation_id,
                        r.flag.file_name>>),
            r.flag.file_name))

handleJSONObservationRetrieval(r) ==
    IF r.flag.observation_id = ""
    THEN ReturnsWith(r, "No observation ID specified.")
    ELSE IF r.flag.agent_id = ""
    THEN ReturnsWith(r, "No agent ID specified.")
    ELSE Returns(SaveJSONToFile(
            Operation(r, "GetJSONObservation",
                      <<r.flag.agent_id, r.flag.observation_id>>), ""))

handleStreamedObservationRetrieval(r) ==
    IF r.flag.observation_id = ""
    THEN ReturnsWith(r, "No observation ID specified.")
    ELSE IF r.flag.agent_id = ""
    THEN ReturnsWith(r, "No agent ID specified.")
    ELSE Returns(SaveJSONToFile(
            Operation(r, "GetStreamedObservation",
                      <<r.flag.agent_id, r.flag.observation_id>>), ""))

handleCoordinationRetrieval(r) ==
    IF r.flag.coordination_topic = ""
    THEN ReturnsWith(r, "No coordination topic specified.")
    ELSE Returns(SaveJSONToFile(
            Operation(r, "GetCoordination", <<r.flag.coordination_topic>>),
            ""))

\* The call of retrievalHandlers[kind].
retrievalHandler(r) ==
    CASE r.handler = rawArtefactRetrieval -> handleRawArtefactRetrieval(r)
      [] r.handler = jsonArtefactRetrieval -> handleJSONArtefactRetrieval(r)
      [] r.handler = rawObservationRetrieval ->
            handleRawObservationRetrieval(r)
      [] r.handler = jsonObservationRetrieval ->
            handleJSONObservationRetrieval(r)
      [] r.handler = streamedObservationRetrieval ->
            handleStreamedObservationRetrieval(r)
      [] r.handler = coordinationRetrieval -> handleCoordinationRetrieval(r)
      [] OTHER -> Returns(r)

mbus_get_main(r) ==
    IF r.flag.kind = ""
    THEN ReturnsWith(r, "No retrieval kind specified.")
    ELSE IF r.flag.file_name = ""
    THEN ReturnsWith(r, "No file name specified for artefact retrieval.")
    ELSE IF r.flag.kind \notin retrievalHandlers
    THEN ReturnsWith(r, "Unknown retrieval kind specified: %s.")
    ELSE [r EXCEPT !.pc = "handler", !.handler = r.flag.kind]

(***************************************************************************)
(* The get application that src/mbus_delete/main.go holds after the        *)
(* deleter: it has no -wait flag, main requires the agent ID, and it       *)
(* writes its files as mbus_get does.                                      *)
(***************************************************************************)
handleRawArtefactRetrieval_mbus_delete(r) ==
    IF r.flag.artefact_id = ""
    THEN ReturnsWith(r, "No artefact ID specified for artefact retrieval.")
    ELSE Returns(writeTimestampToFile(
            Operation(r, "GetRawArtefact",
                      <<r.flag.agent_id, r.flag.artefact_id,
                        r.flag.file_name>>),
            r.flag.file_name))

handleJSONArtefactRetrieval_mbus_delete(r) ==
    IF r.flag.json_version = ""
    THEN ReturnsWith(r,
            "No JSON version specified for JSON artefact retrieval.")
    ELSE IF r.flag.artefact_id = ""
    THEN ReturnsWith(r, "No artefact ID specified for artefact retrieval.")
    ELSE Returns(JSONArtefactRetrieved(r))

handleRawObservationRetrieval_mbus_delete(r) ==
    IF r.flag.observation_id = ""
    THEN ReturnsWith(r, "No observation ID specified.")
    ELSE Returns(writeTimestampToFile(
            Operation(r, "GetRawObservation",
                      <<r.flag.agent_id, r.flag.observation_id,
                        r.flag.file_name>>),
            r.flag.file_name))

handleJSONObservationRetrieval_mbus_delete(r) ==
    IF r.flag.observation_id = ""
    THEN ReturnsWith(r, "No observation ID specified.")
    ELSE Returns(SaveJSONToFile(
            Operation(r, "GetJSONObservation",
                      <<r.flag.agent_id, r.flag.observation_id>>), ""))

handleStreamedObservationRetrieval_mbus_delete(r) ==
    IF r.flag.observation_id = ""
    THEN ReturnsWith(r, "No observation ID specified.")
    ELSE Returns(SaveJSONToFile(
            Operation(r, "GetStreamedObservation",
                      <<r.flag.agent_id, r.flag.observation_id>>), ""))

\* The handler announces a retrieval and calls DeleteCoordination.
handleCoordinationRetrieval_mbus_delete(r) ==
    IF r.flag.coordination_topic = ""
    THEN ReturnsWith(r, "No coordination topic specified.")
    ELSE Returns(Operation(r, "DeleteCoordination",
                           <<r.flag.coordination_topic>>))

retrievalHandler_mbus_delete(r) ==
    CASE r.handler = rawArtefactRetrieval ->
            handleRawArtefactRetrieval_mbus_delete(r)
      [] r.handler = jsonArtefactRetrieval ->
            handleJSONArtefactRetrieval_mbus_delete(r)
      [] r.handler = rawObservationRetrieval ->
            handleRawObservationRetrieval_mbus_delete(r)
      [] r.handler = jsonObservationRetrieval ->
            handleJSONObservationRetrieval_mbus_delete(r)
      [] r.handler = streamedObservationRetrieval ->
            handleStreamedObservationRetrieval_mbus_delete(r)
      [] r.handler = coordinationRetrieval ->
            handleCoordinationRetrieval_mbus_delete(r)
      [] OTHER -> Returns(r)

mbus_get_main_mbus_delete(r) ==
    IF r.flag.agent_id = ""
    THEN ReturnsWith(r, "No agent ID specified.")
    ELSE IF r.flag.kind = ""
    THEN ReturnsWith(r, "No retrieval kind specified.")
    ELSE IF r.flag.file_name = ""
    THEN ReturnsWith(r, "No file name specified for artefact retrieval.")
    ELSE IF r.flag.kind \notin retrievalHandlers
    THEN ReturnsWith(r, "Unknown retrieval kind specified: %s.")
    ELSE [r EXCEPT !.pc = "handler", !.handler = r.flag.kind]

(***************************************************************************)
(* The runs of the applications.  Every string flag is either absent or    *)
(* given with one value; the kind is absent, a registered kind or a kind   *)
(* no application registers; the file mbus_post is to read can or cannot   *)
(* be read; the work folder of the get applications can or cannot be       *)
(* written.                                                                *)
(***************************************************************************)
MaxPostings == 3

WaitModes == {"", "state", "update", "considering", "all"}

PostFlags ==
    {[NoFlags EXCEPT !.kind = k, !.file = f, !.json = j, !.json_version = v,
                     !.artefact_id = a, !.observation_id = o,
                     !.coordination_topic = c] :
        k \in {""} \cup postingHandlers \cup {UnknownKind},
        f \in {"", "post.json"}, j \in {"", "{}"}, v \in {"", "1.0"},
        a \in {"", "artefact"}, o \in {"", "observation"},
        c \in {"", "topic"}}

GetFlags ==
    {[NoFlags EXCEPT !.kind = k, !.agent_id = g, !.file_name = n,
                     !.json_version = v, !.artefact_id = a,
                     !.observation_id = o, !.coordination_topic = c] :
        k \in {""} \cup retrievalHandlers \cup {UnknownKind},
        g \in {"", "agent"}, n \in {"", "name"}, v \in {"", "1.0"},
        a \in {"", "artefact"}, o \in {"", "observation"},
        c \in {"", "topic"}}

WaitFlags ==
    {[f EXCEPT !.wait = w, !.wait_mode = m] :
        f \in GetFlags, w \in BOOLEAN, m \in WaitModes}

DeleteFlags ==
    {[NoFlags EXCEPT !.kind = k, !.json_version = v, !.artefact_id = a,
                     !.observation_id = o, !.coordination_topic = c,
                     !.environment = e] :
        k \in {""} \cup deletionHandlers \cup {UnknownKind},
        v \in {"", "1.0"}, a \in {"", "artefact"},
        o \in {"", "observation"}, c \in {"", "topic"},
        e \in {"", "environment"}}

Runs ==
    {NewRun("mbus_post", f, readable, TRUE) :
        f \in PostFlags, readable \in BOOLEAN}
    \cup {NewRun("mbus_get", f, TRUE, writable) :
        f \in WaitFlags, writable \in BOOLEAN}
    \cup {NewRun("mbus_delete", f, TRUE, TRUE) : f \in DeleteFlags}
    \cup {NewRun("mbus_delete/get", f, TRUE, writable) :
        f \in GetFlags, writable \in BOOLEAN}

BusInit ==
    /\ NoParser
    /\ writer = NoWriter
    /\ mbus \in Runs

\* main of each application, up to the call of the handler.
PostMain ==
    /\ mbus.program = "mbus_post"
    /\ mbus.pc = "main"
    /\ mbus' = mbus_post_main(mbus)
    /\ UNCHANGED <<parserVars, writer>>

GetMain ==
    /\ mbus.program = "mbus_get"
    /\ mbus.pc = "main"
    /\ mbus' = mbus_get_main(mbus)
    /\ UNCHANGED <<parserVars, writer>>

DeleteMain ==
    /\ mbus.program = "mbus_delete"
    /\ mbus.pc = "main"
    /\ mbus' = mbus_delete_main(mbus)
    /\ UNCHANGED <<parserVars, writer>>

GetMain_mbus_delete ==
    /\ mbus.program = "mbus_delete/get"
    /\ mbus.pc = "main"
    /\ mbus' = mbus_get_main_mbus_delete(mbus)
    /\ UNCHANGED <<parserVars, writer>>

\* The handler main has looked up runs.
Post ==
    /\ mbus.program = "mbus_post"
    /\ mbus.pc = "handler"
    /\ mbus' = postingHandler(mbus)
    /\ UNCHANGED <<parserVars, writer>>

Get ==
    /\ mbus.program = "mbus_get"
    /\ mbus.pc = "handler"
    /\ mbus' = retrievalHandler(mbus)
    /\ UNCHANGED <<parserVars, writer>>

Delete ==
    /\ mbus.program = "mbus_delete"
    /\ mbus.pc = "handler"
    /\ mbus' = deletionHandler(mbus)
    /\ UNCHANGED <<parserVars, writer>>

Get_mbus_delete ==
    /\ mbus.program = "mbus_delete/get"
    /\ mbus.pc = "handler"
    /\ mbus' = retrievalHandler_mbus_delete(mbus)
    /\ UNCHANGED <<parserVars, writer>>

\* A posting arrives for a listener of the waiting mbus_get, and the bus
\* library calls the listener's callback.
Deliver ==
    /\ mbus.pc = "waiting"
    /\ Len(mbus.received) < MaxPostings
    /\ \E posting \in DOMAIN mbus.listeners :
          mbus' = [RunCallback(mbus, mbus.listeners[posting])
                      EXCEPT !.received = Append(@, posting)]
    /\ UNCHANGED <<parserVars, writer>>

\* The loop "for !finished { time.Sleep(1 * time.Second) }" reads true and
\* deferredOrImmediate, the handler and main return.  finished is a plain
\* bool that the callback writes on the goroutine of the listener and that
\* the loop reads without synchronisation: an iteration may still read
\* false after the callback has run, and leaves the run as it is.
FinishedObserved ==
    /\ mbus.pc = "waiting"
    /\ mbus.finished
    /\ mbus' = Returns(mbus)
    /\ UNCHANGED <<parserVars, writer>>

BusNext ==
    \/ PostMain
    \/ GetMain
    \/ DeleteMain
    \/ GetMain_mbus_delete
    \/ Post
    \/ Get
    \/ Delete
    \/ Get_mbus_delete
    \/ Deliver
    \/ FinishedObserved

BusSpec == BusInit /\ [][BusNext]_vars

\* Every application runs on: main and its handler are sequential code, and
\* the waiting loop reads finished again every second, so that a value the
\* callback has written is read in the end.  No posting has to arrive.
FairBusSpec ==
    /\ BusSpec
    /\ WF_vars(PostMain) /\ WF_vars(GetMain) /\ WF_vars(DeleteMain)
    /\ WF_vars(GetMain_mbus_delete)
    /\ WF_vars(Post) /\ WF_vars(Get) /\ WF_vars(Delete)
    /\ WF_vars(Get_mbus_delete)
    /\ WF_vars(FinishedObserved)

(***************************************************************************)
(* C32.  The flags a deletion handler requires.                            *)
(***************************************************************************)
RequiredForDeletion(kind, flag) ==
    CASE kind = rawArtefactDeletion -> {flag.artefact_id}
      [] kind = jsonArtefactDeletion -> {flag.json_version, flag.artefact_id}
      [] kind \in {rawObservationDeletion, jsonObservationDeletion,
                   streamedObservationDeletion} -> {flag.observation_id}
      [] kind = coordinationDeletion -> {flag.coordination_topic}
      [] kind = environmentDeletion -> {flag.environment}
      [] OTHER -> {}

\* C32: in mbus_delete no operation is issued on the bus with an empty
\* identifier, and a deletion handler that has returned with one of its
\* required flags (artefact_id, json_version, observation_id,
\* coordination_topic, environment) empty has reported an error and has
\* issued no operation; with all of them given it has issued one delete.
C32_NoDeleteWithEmptyIdentifier ==
    mbus.program = "mbus_delete" =>
        /\ \A i \in DOMAIN mbus.bus :
              \A j \in DOMAIN mbus.bus[i].args : mbus.bus[i].args[j] # ""
        /\ mbus.pc = "done" /\ mbus.handler # "-" =>
              IF "" \in RequiredForDeletion(mbus.handler, mbus.flag)
              THEN mbus.reported # << >> /\ mbus.bus = << >>
              ELSE mbus.reported = << >> /\ Len(mbus.bus) = 1

\* The JSON artefact deletion was asked for with a JSON version and without
\* an artefact ID: the handler has reported that and deleted nothing.
C32_Witness ==
    /\ mbus.program = "mbus_delete"
    /\ mbus.pc = "done"
    /\ mbus.handler = jsonArtefactDeletion
    /\ mbus.flag.json_version = "1.0"
    /\ mbus.flag.artefact_id = ""
    /\ mbus.reported = <<"No artefact ID specified for artefact deletion.">>
    /\ mbus.bus = << >>

(***************************************************************************)
(* C33.  The kinds an application registers a handler for.                 *)
(***************************************************************************)
RegisteredKinds(program) ==
    CASE program = "mbus_post" -> postingHandlers
      [] program = "mbus_get" -> retrievalHandlers
      [] program = "mbus_delete" -> deletionHandlers
      [] OTHER -> {}

\* C33: in mbus_post, mbus_get and mbus_delete a handler is invoked only
\* for a -kind that is non-empty and registered, and it is the handler of
\* that kind; once main has passed its checks with an empty or unknown
\* kind, it has returned with one error reported, no handler invoked and no
\* operation issued on the bus.
C33_HandlerOnlyForRegisteredKind ==
    mbus.program \in {"mbus_post", "mbus_get", "mbus_delete"} =>
        /\ mbus.handler # "-" =>
              /\ mbus.flag.kind # ""
              /\ mbus.flag.kind \in RegisteredKinds(mbus.program)
              /\ mbus.handler = mbus.flag.kind
        /\ ( /\ mbus.pc # "main"
             /\ mbus.flag.kind \notin RegisteredKinds(mbus.program) ) =>
              /\ mbus.pc = "done"
              /\ mbus.handler = "-"
              /\ Len(mbus.reported) = 1
              /\ mbus.bus = << >>

\* mbus_get was given a file name and a kind nobody registered: main has
\* reported the unknown kind and returned.
C33_Witness ==
    /\ mbus.program = "mbus_get"
    /\ mbus.flag.kind = UnknownKind
    /\ mbus.flag.file_name # ""
    /\ mbus.pc = "done"
    /\ mbus.handler = "-"
    /\ mbus.reported = <<"Unknown retrieval kind specified: %s.">>
    /\ mbus.bus = << >>

(***************************************************************************)
(* C36.  The handlers of mbus_post that post a JSON payload, the flags     *)
(* they require before they ask for the payload, and the payload of the    *)
(* operation they issue.                                                   *)
(***************************************************************************)
PayloadKinds ==
    {jsonArtefactPosting, jsonObservationPosting, streamedObservationPosting,
     coordinationPosting}

RequiredForPayload(kind, flag) ==
    CASE kind = jsonArtefactPosting -> {flag.json_version, flag.artefact_id}
      [] kind \in {jsonObservationPosting, streamedObservationPosting} ->
            {flag.observation_id}
      [] kind = coordinationPosting -> {flag.coordination_topic}
      [] OTHER -> {}

PostedPayload(operation) ==
    IF operation.op = "PostJSONArtefactState"
    THEN operation.args[1]
    ELSE operation.args[2]

DeleteOperations ==
    {"DeleteRawArtefact", "DeleteJSONArtefact", "DeleteRawObservation",
     "DeleteJSONObservation", "DeleteStreamedObservation",
     "DeleteCoordination", "DeleteEnvironment"}

\* C37: in a get application the handler of the retrieval kind
\* "coordination" never issues a delete operation; when it has returned
\* with the topic given it has issued GetCoordination and nothing else.
\* This fails for the get application in src/mbus_delete/main.go, whose
\* handleCoordinationRetrieval calls DeleteCoordination.
C37_CoordinationRetrievalNeverDeletes ==
    ( /\ mbus.program \in {"mbus_get", "mbus_delete/get"}
      /\ mbus.handler = coordinationRetrieval ) =>
        /\ \A i \in DOMAIN mbus.bus : mbus.bus[i].op \notin DeleteOperations
        /\ mbus.pc = "done" /\ mbus.flag.coordination_topic # "" =>
              mbus.bus = <<[op |-> "GetCoordination",
                            args |-> <<mbus.flag.coordination_topic>>]>>

(***************************************************************************)
(* C34.  mbus_get waits for a posting of a JSON artefact in one of the     *)
(* three wait modes; the posting just delivered; the kind under which the  *)
(* awaited posting is saved.                                               *)
(***************************************************************************)
WaitingForJSONArtefact ==
    /\ mbus.program = "mbus_get"
    /\ mbus.pc = "waiting"
    /\ mbus.handler = jsonArtefactRetrieval
    /\ mbus.flag.wait_mode \in {"state", "update", "considering"}

Delivered == mbus'.received[Len(mbus'.received)]

SavedAs(mode) == IF mode = "considering" THEN "considered" ELSE mode

\* C34: while mbus_get waits for a JSON artefact with -wait_mode state
\* (update, considering), postings of all three kinds are received; the
\* delivery of a state (update, considering) posting marks the retrieval
\* finished and, the work folder being writable, writes the file of that
\* kind and its timestamp; the delivery of a posting of another kind
\* changes nothing but the record of what was received; and the wait ends
\* only after a posting of the awaited kind was received.
C34_OnlyAwaitedPostingEndsWait ==
    [][ WaitingForJSONArtefact =>
          /\ DOMAIN mbus.listeners = {"state", "update", "considering"}
          /\ mbus'.received # mbus.received =>
                IF Delivered = mbus.flag.wait_mode
                THEN /\ mbus'.finished
                     /\ mbus'.pc = "waiting"
                     /\ mbus.writable =>
                          mbus'.files = mbus.files \o
                            <<FileBaseName(mbus, SavedAs(mbus.flag.wait_mode)),
                              FileBaseName(mbus, SavedAs(mbus.flag.wait_mode))
                                \o timestampExtension>>
                ELSE mbus' = [mbus EXCEPT
                                !.received = Append(@, Delivered)]
          /\ mbus'.pc = "done" =>
                \E i \in DOMAIN mbus.received :
                    mbus.received[i] = mbus.flag.wait_mode
      ]_vars

\* Waiting for an update, mbus_get received a state posting and a
\* considering posting, which wrote nothing, and then the update posting,
\* which wrote the update file and its timestamp and ended the wait.
C34_Witness ==
    /\ mbus.program = "mbus_get"
    /\ mbus.handler = jsonArtefactRetrieval
    /\ mbus.flag.wait
    /\ mbus.flag.wait_mode = "update"
    /\ mbus.received = <<"state", "considering", "update">>
    /\ mbus.files = <<"update_name.json", "update_name.json.timestamp">>
    /\ mbus.finished
    /\ mbus.pc = "done"

(***************************************************************************)
(* C35.  The deferred retrieval: mbus_get was started with -wait and its   *)
(* handler has registered listeners.  An awaited posting is one whose      *)
(* callback sets finished.                                                 *)
(***************************************************************************)
Deferred ==
    /\ mbus.program = "mbus_get"
    /\ mbus.flag.wait
    /\ mbus.listeners # << >>

AwaitedReceived(r) ==
    \E i \in DOMAIN r.received : r.listeners[r.received[i]].finishes

=============================================================================
